---- MODULE Spec2Model ----
(***************************************************************************)
(* Model of the Dash0 MCP server's telemetry query handlers               *)
(* (QueryLogsHandler, QuerySpansHandler) and of the HTTP client           *)
(* (Client.Request, extractErrorDetail) they share.                       *)
(*                                                                         *)
(* A handler invocation is two steps: the part of the handler up to the   *)
(* network round trip (Call), and the part after the response arrived     *)
(* (Return).  The upstream response is the input of the second step.      *)
(***************************************************************************)
EXTENDS Integers, Sequences, FiniteSets, TLC

(***************************************************************************)
(* Numbers.                                                                *)
(*                                                                         *)
(* Tool arguments are decoded from JSON, so every number is a float64.    *)
(* A float is modelled exactly as a count of halves (h = 2 * value), or   *)
(* as "big": a finite float that is >= 2^63 (for instance 1e19).          *)
(*                                                                         *)
(* A Go int is 64 bits wide.  Values are ordinary integers, except the    *)
(* two extreme values, which are kept symbolic.                            *)
(***************************************************************************)
Fin(h) == [cls |-> "fin", h |-> h]

Big == [cls |-> "big", h |-> 0]

FloatPositive(f) == f.cls = "big" \/ f.h > 0

GoI(v) == [cls |-> "int", v |-> v]

MinInt64 == [cls |-> "min", v |-> 0]

MaxInt64 == [cls |-> "max", v |-> 0]

\* Truncation toward zero of h/2.
Trunc(h) == IF h >= 0 THEN h \div 2 ELSE -((-h) \div 2)

\* The conversion int(f).  For a float the type cannot represent, the Go
\* specification leaves the result to the implementation: amd64 yields the
\* minimum int64, arm64 saturates to the maximum.
FloatToInt(f) ==
    IF f.cls = "fin" THEN {GoI(Trunc(f.h))} ELSE {MinInt64, MaxInt64}

\* if x > max { x = max }
ClampInt(x, max) ==
    CASE x.cls = "max" -> GoI(max)
      [] x.cls = "min" -> x
      [] OTHER -> IF x.v > max THEN GoI(max) ELSE x

(***************************************************************************)
(* Tool arguments: map[string]interface{} decoded from JSON.  An entry is *)
(* absent, or carries a string, a number or a boolean.                    *)
(***************************************************************************)
Absent == [t |-> "absent", s |-> "", f |-> Fin(0), b |-> FALSE]

StrArg(s) == [t |-> "str", s |-> s, f |-> Fin(0), b |-> FALSE]

NumArg(f) == [t |-> "num", s |-> "", f |-> f, b |-> FALSE]

BoolArg(b) == [t |-> "bool", s |-> "", f |-> Fin(0), b |-> b]

\* Texts that are searched (log bodies, body_contains) are sequences of
\* characters.
AbsentText == [t |-> "absent", s |-> <<>>, f |-> Fin(0), b |-> FALSE]

TextArg(cs) == [t |-> "str", s |-> cs, f |-> Fin(0), b |-> FALSE]

(***************************************************************************)
(* Time.  An instant is whole seconds plus nanoseconds; Format(RFC3339)   *)
(* renders the whole seconds only, so the rendered text is modelled by    *)
(* the count of whole seconds.                                             *)
(***************************************************************************)
FormatRFC3339(t) == t.sec

\* -time.Duration(minutes) * time.Minute, in seconds.  For the minimum
\* int64 the negation wraps to itself and the product with 60e9 (an even
\* number) wraps to 0.
NegDuration(minutes) == IF minutes.cls = "min" THEN 0 ELSE -(minutes.v * 60)

\* now.Add(d)
TimeAdd(t, dsec) == [sec |-> t.sec + dsec, nsec |-> t.nsec]

(***************************************************************************)
(* HTTP client (internal/client).                                          *)
(*                                                                         *)
(* ToolResult{Success, Data, Error}; Error is a pointer, "set" tells       *)
(* whether it is non-nil.  Title (resp.Status) is modelled by the status  *)
(* code it is rendered from.                                               *)
(***************************************************************************)
NoError == [set |-> FALSE, StatusCode |-> 0, Title |-> 0, Detail |-> ""]

NilData == [t |-> "nil"]

ErrorResult(statusCode, message) ==
    [Success |-> FALSE,
     Data    |-> NilData,
     Error   |-> [set |-> TRUE, StatusCode |-> statusCode, Title |-> 0,
                  Detail |-> message]]

SuccessResult(data) == [Success |-> TRUE, Data |-> data, Error |-> NoError]

(***************************************************************************)
(* JSON error bodies.  Of a decoded object the extractor looks at four    *)
(* keys.  The value under a key (EV) is absent, a string, an object, an   *)
(* array or anything else; of an object it looks at detail and message,   *)
(* of an array at its first element (el).                                  *)
(***************************************************************************)
NoLeaf == [t |-> "absent", s |-> ""]

StrLeaf(s) == [t |-> "str", s |-> s]

OtherLeaf == [t |-> "other", s |-> ""]

EVAbsent == [t |-> "absent", s |-> "", el |-> "none", detail |-> NoLeaf, message |-> NoLeaf]

EVStr(s) == [t |-> "str", s |-> s, el |-> "none", detail |-> NoLeaf, message |-> NoLeaf]

EVOther == [t |-> "other", s |-> "", el |-> "none", detail |-> NoLeaf, message |-> NoLeaf]

EVObj(d, m) == [t |-> "obj", s |-> "", el |-> "none", detail |-> d, message |-> m]

EVArrEmpty == [t |-> "arr", s |-> "", el |-> "none", detail |-> NoLeaf, message |-> NoLeaf]

EVArrStr(s) == [t |-> "arr", s |-> s, el |-> "str", detail |-> NoLeaf, message |-> NoLeaf]

EVArrOther == [t |-> "arr", s |-> "", el |-> "other", detail |-> NoLeaf, message |-> NoLeaf]

EVArrObj(d, m) == [t |-> "arr", s |-> "", el |-> "obj", detail |-> d, message |-> m]

NoErrKeys == [error |-> EVAbsent, message |-> EVAbsent, detail |-> EVAbsent, errors |-> EVAbsent]

\* em["detail"].(string), then em["message"].(string)
DetailThenMessage(ev) ==
    IF ev.detail.t = "str" THEN [found |-> TRUE, s |-> ev.detail.s]
    ELSE IF ev.message.t = "str" THEN [found |-> TRUE, s |-> ev.message.s]
    ELSE [found |-> FALSE, s |-> ""]

\* The type switch on the value found under one key.
SwitchVal(ev) ==
    CASE ev.t = "str" -> [found |-> TRUE, s |-> ev.s]
      [] ev.t = "arr" ->
            IF ev.el = "str" THEN [found |-> TRUE, s |-> ev.s]
            ELSE IF ev.el = "obj" THEN DetailThenMessage(ev)
            ELSE [found |-> FALSE, s |-> ""]
      [] ev.t = "obj" -> DetailThenMessage(ev)
      [] OTHER -> [found |-> FALSE, s |-> ""]

\* Variant: detail and message tried before error.
ErrorKeys_DetailFirst == <<"detail", "message", "error", "errors">>

\* The order in which extractErrorDetail tries the keys.
ErrorKeys == <<"error", "message", "detail", "errors">>

RECURSIVE ScanKeys(_, _, _)
ScanKeys(m, keys, i) ==
    IF i > Len(keys) THEN ""
    ELSE IF m[keys[i]].t # "absent" /\ SwitchVal(m[keys[i]]).found
         THEN SwitchVal(m[keys[i]]).s
         ELSE ScanKeys(m, keys, i + 1)

\* result is what json.Unmarshal produced: a map (t = "obj"), or something
\* that is not a map.
extractErrorDetail(result) ==
    IF result.t = "obj" THEN ScanKeys(result.err, ErrorKeys, 1) ELSE ""

(***************************************************************************)
(* An upstream response: the round trip fails (net = "fail"), reading the *)
(* body fails (net = "readfail"), or a status and a body arrive.  The raw *)
(* body is empty, not JSON, or JSON text of an object, of null, or of     *)
(* some other value; an object carries the error keys (err) and the       *)
(* telemetry payload (payload).                                            *)
(***************************************************************************)
NoPayload == [key |-> "none", t |-> "absent", groups |-> <<>>]

Body(raw, err, payload) == [raw |-> raw, err |-> err, payload |-> payload]

Response(net, status, body) == [net |-> net, status |-> status, body |-> body]

\* var result interface{}; json.Unmarshal(respBody, &result), falling back
\* to the raw string.
ParseBody(body) ==
    CASE body.raw = "empty" -> NilData
      [] body.raw = "null" -> NilData
      [] body.raw = "nonjson" -> [t |-> "text"]
      [] body.raw = "object" -> [t |-> "obj", err |-> body.err, payload |-> body.payload]
      [] OTHER -> [t |-> "other"]

\* Variant: everything but 2xx is an error.
IsErrorStatus_Non2xx(status) == status < 200 \/ status >= 300

\* resp.StatusCode >= 400
IsErrorStatus(status) == status >= 400

\* Variant: a body that is not JSON is an error.
Request_StrictJSON(resp) ==
    CASE resp.net = "fail" -> ErrorResult(500, "request failed")
      [] resp.net = "readfail" -> ErrorResult(500, "failed to read response")
      [] resp.body.raw = "nonjson" -> ErrorResult(500, "failed to parse response")
      [] OTHER ->
            LET result == ParseBody(resp.body) IN
            IF IsErrorStatus(resp.status)
            THEN [Success |-> FALSE,
                  Data    |-> result,
                  Error   |-> [set |-> TRUE, StatusCode |-> resp.status,
                               Title |-> resp.status,
                               Detail |-> extractErrorDetail(result)]]
            ELSE SuccessResult(result)

\* Client.Request from the round trip on (Get, Post, Put and Delete all
\* delegate to it).
Request(resp) ==
    CASE resp.net = "fail" -> ErrorResult(500, "request failed")
      [] resp.net = "readfail" -> ErrorResult(500, "failed to read response")
      [] OTHER ->
            LET result == ParseBody(resp.body) IN
            IF IsErrorStatus(resp.status)
            THEN [Success |-> FALSE,
                  Data    |-> result,
                  Error   |-> [set |-> TRUE, StatusCode |-> resp.status,
                               Title |-> resp.status,
                               Detail |-> extractErrorDetail(result)]]
            ELSE SuccessResult(result)

(***************************************************************************)
(* Strings that are searched: sequences of characters.                     *)
(***************************************************************************)
LowerCase == ("E" :> "e") @@ ("R" :> "r")

\* Variant: the text is left as it is.
ToLower_Unchanged(cs) == cs

\* strings.ToLower
ToLower(cs) ==
    [i \in 1..Len(cs) |-> IF cs[i] \in DOMAIN LowerCase THEN LowerCase[cs[i]] ELSE cs[i]]

\* strings.Contains
Contains(cs, sub) ==
    \E i \in 0..(Len(cs) - Len(sub)) : SubSeq(cs, i + 1, i + Len(sub)) = sub

(***************************************************************************)
(* Conversions between numbers and their decimal text.                     *)
(***************************************************************************)
DigitValue ==
    ("0" :> 0) @@ ("1" :> 1) @@ ("2" :> 2) @@ ("3" :> 3) @@ ("4" :> 4) @@
    ("5" :> 5) @@ ("6" :> 6) @@ ("7" :> 7) @@ ("8" :> 8) @@ ("9" :> 9)

IsDigit(c) == c \in DOMAIN DigitValue

RECURSIVE ParseDigits(_, _, _)
ParseDigits(cs, i, acc) ==
    IF i > Len(cs) THEN [ok |-> TRUE, v |-> acc]
    ELSE IF IsDigit(cs[i]) THEN ParseDigits(cs, i + 1, acc * 10 + DigitValue[cs[i]])
    ELSE [ok |-> FALSE, v |-> 0]

\* strconv.ParseInt(s, 10, 64) of a text of at most nine digits: an optional
\* sign, then at least one digit, nothing else.
ParseInt(cs) ==
    LET signed == Len(cs) > 0 /\ cs[1] \in {"+", "-"}
        digits == IF signed THEN Tail(cs) ELSE cs
        p == ParseDigits(digits, 1, 0)
    IN  IF Len(digits) = 0 \/ ~p.ok THEN [ok |-> FALSE, v |-> 0]
        ELSE [ok |-> TRUE, v |-> IF signed /\ cs[1] = "-" THEN -p.v ELSE p.v]

\* strconv.Itoa
Itoa(i) ==
    CASE i.cls = "min" -> "-9223372036854775808"
      [] i.cls = "max" -> "9223372036854775807"
      [] OTHER -> ToString(i.v)

\* time.Unix(0, n).UTC().Format(time.RFC3339Nano): one text per instant; the
\* empty text is the zero value of the field.
NoTimeText == [empty |-> TRUE, nanos |-> 0]

FormatNanos(n) == [empty |-> FALSE, nanos |-> n]

(***************************************************************************)
(* Telemetry payload (OTLP JSON): resource groups, each with resource     *)
(* attributes and scope groups, each scope group a list of leaf records.  *)
(***************************************************************************)
\* A value that should be a JSON array: the array, a missing key, or a value
\* of another type.
Arr(items) == [t |-> "arr", items |-> items]

Missing == [t |-> "absent", items |-> <<>>]

Wrong == [t |-> "other", items |-> <<>>]

\* The value under "resourceLogs" / "resourceSpans" of a response object.
Payload(key, groups) == [key |-> key, t |-> "arr", groups |-> groups]

WrongPayload(key) == [key |-> key, t |-> "other", groups |-> <<>>]

\* One entry of resource.attributes: an object with a key and a value, the
\* value an object with a stringValue; AttrOf gives each part its type.
AttrOf(key, valueT, strVal) ==
    [t |-> "obj", key |-> key, value |-> [t |-> valueT, stringValue |-> strVal]]

Attr(key, strVal) == AttrOf(StrLeaf(key), "obj", strVal)

NotAnAttr == [t |-> "other", key |-> NoLeaf, value |-> [t |-> "absent", stringValue |-> NoLeaf]]

Resource(attributes) == [t |-> "obj", attributes |-> attributes]

NoResource == [t |-> "absent", attributes |-> Missing]

\* One scope group: an object whose leaf list (logRecords, spans) is given.
Scope(leaves) == [t |-> "obj", leaves |-> leaves]

NotAScope == [t |-> "other", leaves |-> Missing]

\* One resource group: its resource and its scope list (scopeLogs,
\* scopeSpans).
GroupOf(resource, scopes) == [t |-> "obj", resource |-> resource, scopes |-> scopes]

NotAGroup == [t |-> "other", resource |-> NoResource, scopes |-> Missing]

\* A well-formed resource group, from its attribute entries and the leaf
\* lists of its scope groups.
Group(attrs, scopes) ==
    GroupOf(Resource(Arr(attrs)), Arr([i \in 1..Len(scopes) |-> Scope(Arr(scopes[i]))]))

\* One entry of a leaf's attributes: an object with a key and a value, the
\* value an object that may hold stringValue, intValue and boolValue.
KVOf(key, valueT, sv, iv, bv) ==
    [t |-> "obj", key |-> key,
     value |-> [t |-> valueT, stringValue |-> sv, intValue |-> iv, boolValue |-> bv]]

KV(key, sv, iv, bv) == KVOf(StrLeaf(key), "obj", sv, iv, bv)

NotAKV ==
    [t |-> "other", key |-> NoLeaf,
     value |-> [t |-> "absent", stringValue |-> NoLeaf, intValue |-> AbsentText,
                boolValue |-> Absent]]

\* One log record: timeUnixNano, observedTimeUnixNano, severityNumber, the
\* stringValue of body, attributes.
LogLeafOf(time, observed, sev, body, attributes) ==
    [t |-> "obj", timeUnixNano |-> time, observedTimeUnixNano |-> observed,
     severityNumber |-> sev, body |-> body, attributes |-> attributes]

LogLeaf(sev, body) == LogLeafOf(AbsentText, AbsentText, sev, body, Missing)

NotALogRecord ==
    [t |-> "other", timeUnixNano |-> AbsentText, observedTimeUnixNano |-> AbsentText,
     severityNumber |-> Absent, body |-> AbsentText, attributes |-> Missing]

\* One span: startTimeUnixNano, endTimeUnixNano, attributes.
SpanLeafOf(start, end, attributes) ==
    [t |-> "obj", startTimeUnixNano |-> start, endTimeUnixNano |-> end,
     attributes |-> attributes]

SpanLeaf(start, end) == SpanLeafOf(start, end, Missing)

NotASpan ==
    [t |-> "other", startTimeUnixNano |-> Absent, endTimeUnixNano |-> Absent,
     attributes |-> Missing]

\* Variant: the scan ends at the first entry with the key service.name,
\* whatever its value.
RECURSIVE ScanServiceName_StopAtKey(_, _)
ScanServiceName_StopAtKey(attrs, i) ==
    IF i > Len(attrs) THEN ""
    ELSE IF attrs[i].t = "obj" /\ attrs[i].key = StrLeaf("service.name")
         THEN IF attrs[i].value.t = "obj" /\ attrs[i].value.stringValue.t = "str"
              THEN attrs[i].value.stringValue.s ELSE ""
         ELSE ScanServiceName_StopAtKey(attrs, i + 1)

\* The loop of extractServiceName: it returns at the first entry that is an
\* object with the key service.name and a value object holding a string
\* stringValue; every other entry is passed over.
RECURSIVE ScanServiceName(_, _)
ScanServiceName(attrs, i) ==
    IF i > Len(attrs) THEN ""
    ELSE IF /\ attrs[i].t = "obj"
            /\ attrs[i].key = StrLeaf("service.name")
            /\ attrs[i].value.t = "obj"
            /\ attrs[i].value.stringValue.t = "str"
         THEN attrs[i].value.stringValue.s
         ELSE ScanServiceName(attrs, i + 1)

extractServiceName(rlMap) ==
    IF rlMap.resource.t # "obj" THEN ""
    ELSE IF rlMap.resource.attributes.t # "arr" THEN ""
    ELSE ScanServiceName(rlMap.resource.attributes.items, 1)

\* int(sevNum) of a JSON number of the payload (finite, within int64).
IntOfNumber(f) == Trunc(f.h)

\* The values an attribute map holds: a string, an int64 or a bool; Unset
\* says that the iteration stores nothing.
AttrString(str) == [kind |-> "string", s |-> str, i |-> 0, b |-> FALSE]

AttrInt(i) == [kind |-> "int", s |-> "", i |-> i, b |-> FALSE]

AttrBool(b) == [kind |-> "bool", s |-> "", i |-> 0, b |-> b]

Unset == [kind |-> "unset", s |-> "", i |-> 0, b |-> FALSE]

\* Variant: boolValue is looked at before intValue.
ResolveValue_BoolBeforeInt(value) ==
    IF value.stringValue.t = "str" THEN AttrString(value.stringValue.s)
    ELSE IF value.boolValue.t = "bool" THEN AttrBool(value.boolValue.b)
    ELSE IF value.intValue.t = "str"
         THEN IF ParseInt(value.intValue.s).ok
              THEN AttrInt(ParseInt(value.intValue.s).v) ELSE Unset
    ELSE Unset

\* The if / else-if chain over stringValue, intValue and boolValue.
ResolveValue(value) ==
    IF value.stringValue.t = "str" THEN AttrString(value.stringValue.s)
    ELSE IF value.intValue.t = "str"
         THEN IF ParseInt(value.intValue.s).ok
              THEN AttrInt(ParseInt(value.intValue.s).v) ELSE Unset
    ELSE IF value.boolValue.t = "bool" THEN AttrBool(value.boolValue.b)
    ELSE Unset

\* make(map[string]interface{})
EmptyMap == [k \in {} |-> Unset]

\* One iteration of the attribute loop, after the key was accepted.
PutAttribute(result, attrMap) ==
    IF attrMap.value.t = "obj" /\ ResolveValue(attrMap.value).kind # "unset"
    THEN [k \in DOMAIN result \cup {attrMap.key.s} |->
             IF k = attrMap.key.s THEN ResolveValue(attrMap.value) ELSE result[k]]
    ELSE result

\* Variant: http.user_agent is retained as well.
interestingKeys_WithUserAgent ==
    {"http.request.method", "http.response.status_code", "http.route", "http.url",
     "http.target", "db.system", "db.statement", "rpc.method", "rpc.service",
     "messaging.system", "messaging.operation", "error.type", "exception.type",
     "exception.message", "http.user_agent"}

interestingKeys ==
    {"http.request.method", "http.response.status_code", "http.route", "http.url",
     "http.target", "db.system", "db.statement", "rpc.method", "rpc.service",
     "messaging.system", "messaging.operation", "error.type", "exception.type",
     "exception.message"}

\* The loop of extractSpanAttributes.
RECURSIVE SpanAttributeLoop(_, _, _)
SpanAttributeLoop(attrs, i, result) ==
    IF i > Len(attrs) THEN result
    ELSE IF attrs[i].t # "obj" THEN SpanAttributeLoop(attrs, i + 1, result)
    ELSE IF attrs[i].key.t # "str" \/ attrs[i].key.s \notin interestingKeys
         THEN SpanAttributeLoop(attrs, i + 1, result)
    ELSE SpanAttributeLoop(attrs, i + 1, PutAttribute(result, attrs[i]))

extractSpanAttributes(spanMap) ==
    IF spanMap.attributes.t # "arr" THEN EmptyMap
    ELSE SpanAttributeLoop(spanMap.attributes.items, 1, EmptyMap)

\* The loop of extractLogAttributes.
RECURSIVE LogAttributeLoop(_, _, _)
LogAttributeLoop(attrs, i, result) ==
    IF i > Len(attrs) THEN result
    ELSE IF attrs[i].t # "obj" THEN LogAttributeLoop(attrs, i + 1, result)
    ELSE IF attrs[i].key.t # "str" THEN LogAttributeLoop(attrs, i + 1, result)
    ELSE LogAttributeLoop(attrs, i + 1, PutAttribute(result, attrs[i]))

\* Variant: the allow-list of the span query is applied to log records.
extractLogAttributes_AllowListed(logMap) == extractSpanAttributes(logMap)

extractLogAttributes(logMap) ==
    IF logMap.attributes.t # "arr" THEN EmptyMap
    ELSE LogAttributeLoop(logMap.attributes.items, 1, EmptyMap)

\* The text of a nanosecond count given as decimal text; empty when the
\* text does not parse.
TimeOfText(cs) == IF ParseInt(cs).ok THEN FormatNanos(ParseInt(cs).v) ELSE NoTimeText

\* Variant: observedTimeUnixNano is also used when timeUnixNano does not
\* parse.
LogTimestamp_FallbackOnUnparsable(logMap) ==
    IF logMap.timeUnixNano.t = "str" /\ ParseInt(logMap.timeUnixNano.s).ok
    THEN TimeOfText(logMap.timeUnixNano.s)
    ELSE IF logMap.observedTimeUnixNano.t = "str"
         THEN TimeOfText(logMap.observedTimeUnixNano.s)
    ELSE NoTimeText

\* flat.Timestamp: from timeUnixNano when it is a string, else from
\* observedTimeUnixNano when that is a string.
LogTimestamp(logMap) ==
    IF logMap.timeUnixNano.t = "str" THEN TimeOfText(logMap.timeUnixNano.s)
    ELSE IF logMap.observedTimeUnixNano.t = "str"
         THEN TimeOfText(logMap.observedTimeUnixNano.s)
    ELSE NoTimeText

\* The FlatLog built from one log record.
FlatLogOf(logMap, serviceName) ==
    [ServiceName    |-> serviceName,
     Timestamp      |-> LogTimestamp(logMap),
     SeverityNumber |-> IF logMap.severityNumber.t = "num"
                        THEN IntOfNumber(logMap.severityNumber.f) ELSE 0,
     Body           |-> IF logMap.body.t = "str" THEN logMap.body.s ELSE <<>>,
     Attributes     |-> extractLogAttributes(logMap)]

\* Variant: an entry that is not an object yields a record as well.
LogRecordsOf_KeepNonObjects(logRecords, serviceName) ==
    [j \in 1..Len(logRecords) |-> FlatLogOf(logRecords[j], serviceName)]

\* The loop over logRecords: one record per entry that is an object.
LogRecordsOf(logRecords, serviceName) ==
    LET logMaps == SelectSeq(logRecords, LAMBDA lr : lr.t = "obj") IN
    [j \in 1..Len(logMaps) |-> FlatLogOf(logMaps[j], serviceName)]

\* The loop over scopeLogs: an entry that is not an object, or whose
\* logRecords is not an array, is passed over.
RECURSIVE FlattenLogScopes(_, _, _)
FlattenLogScopes(scopeLogs, serviceName, i) ==
    IF i > Len(scopeLogs) THEN <<>>
    ELSE (IF scopeLogs[i].t = "obj" /\ scopeLogs[i].leaves.t = "arr"
          THEN LogRecordsOf(scopeLogs[i].leaves.items, serviceName)
          ELSE <<>>)
         \o FlattenLogScopes(scopeLogs, serviceName, i + 1)

\* Variant: every record gets the service name of the first resource group.
RECURSIVE FlattenLogGroups_FirstService(_, _)
FlattenLogGroups_FirstService(resourceLogs, i) ==
    IF i > Len(resourceLogs) THEN <<>>
    ELSE (IF resourceLogs[i].t = "obj" /\ resourceLogs[i].scopes.t = "arr"
          THEN FlattenLogScopes(resourceLogs[i].scopes.items,
                                extractServiceName(resourceLogs[1]), 1)
          ELSE <<>>)
         \o FlattenLogGroups_FirstService(resourceLogs, i + 1)

\* The loop over resourceLogs: an entry that is not an object, or whose
\* scopeLogs is not an array, is passed over.
RECURSIVE FlattenLogGroups(_, _)
FlattenLogGroups(resourceLogs, i) ==
    IF i > Len(resourceLogs) THEN <<>>
    ELSE (IF resourceLogs[i].t = "obj" /\ resourceLogs[i].scopes.t = "arr"
          THEN FlattenLogScopes(resourceLogs[i].scopes.items,
                                extractServiceName(resourceLogs[i]), 1)
          ELSE <<>>)
         \o FlattenLogGroups(resourceLogs, i + 1)

flattenLogsResponse(data) ==
    IF data.t # "obj" THEN <<>>
    ELSE IF data.payload.key # "resourceLogs" \/ data.payload.t # "arr" THEN <<>>
    ELSE FlattenLogGroups(data.payload.groups, 1)

(***************************************************************************)
(* Log query (api/logs).                                                   *)
(***************************************************************************)
severityOrder ==
    [TRACE |-> 1, DEBUG |-> 5, INFO |-> 9, WARN |-> 13, ERROR |-> 17, FATAL |-> 21]

\* Variant: a name that is no level reads as INFO.
SeverityLevel_UnknownIsInfo(minSeverity) ==
    IF minSeverity \in DOMAIN severityOrder THEN severityOrder[minSeverity]
    ELSE severityOrder["INFO"]

\* severityOrder[minSeverity]: a missing key reads as 0.
SeverityLevel(minSeverity) ==
    IF minSeverity \in DOMAIN severityOrder THEN severityOrder[minSeverity] ELSE 0

StringFilter(key, value) ==
    [Key |-> key, Operator |-> "is", Value |-> [kind |-> "stringValue", v |-> value]]

\* Variant: the operator is spelled equals.
IntFilter_Equals(key, value) ==
    [Key |-> key, Operator |-> "equals", Value |-> [kind |-> "intValue", v |-> value]]

IntFilter(key, value) ==
    [Key |-> key, Operator |-> "is", Value |-> [kind |-> "intValue", v |-> value]]

\* Variant: min_severity is pushed upstream as well.
LogsFilters_WithSeverity(a) ==
    (IF a.service_name.t = "str" /\ a.service_name.s # ""
     THEN <<StringFilter("service.name", a.service_name.s)>>
     ELSE <<>>)
    \o (IF a.min_severity.t = "str" /\ a.min_severity.s # ""
        THEN <<StringFilter("severity_text", a.min_severity.s)>>
        ELSE <<>>)

LogsFilters(a) ==
    IF a.service_name.t = "str" /\ a.service_name.s # ""
    THEN <<StringFilter("service.name", a.service_name.s)>>
    ELSE <<>>

\* Variant: every number is taken, positive or not.
LogsMinutes_AnyNumber(arg) ==
    IF arg.t = "num"
    THEN {ClampInt(m, 1440) : m \in FloatToInt(arg.f)}
    ELSE {GoI(60)}

\* minutes: 60 unless a positive number is given, then int(m) capped at 1440.
LogsMinutes(arg) ==
    IF arg.t = "num" /\ FloatPositive(arg.f)
    THEN {ClampInt(m, 1440) : m \in FloatToInt(arg.f)}
    ELSE {GoI(60)}

\* limit: 100 unless a positive number is given, then int(l) capped at 500.
LogsLimit(arg) ==
    IF arg.t = "num" /\ FloatPositive(arg.f)
    THEN {ClampInt(l, 500) : l \in FloatToInt(arg.f)}
    ELSE {GoI(100)}

\* Pagination{Limit: limit * 2}; twice the minimum int64 wraps to 0.
LogsPageSize(lim) == IF lim.cls = "min" THEN GoI(0) ELSE GoI(lim.v * 2)

\* Variant: strictly above the level.
SeverityFilter_Strict(flatLogs, arg) ==
    IF arg.t = "str" /\ arg.s # ""
    THEN SelectSeq(flatLogs, LAMBDA log : log.SeverityNumber > SeverityLevel(arg.s))
    ELSE flatLogs

SeverityFilter(flatLogs, arg) ==
    IF arg.t = "str" /\ arg.s # ""
    THEN SelectSeq(flatLogs, LAMBDA log : log.SeverityNumber >= SeverityLevel(arg.s))
    ELSE flatLogs

\* Variant: the records kept carry their body in lower case.
BodyFilter_LowersKept(flatLogs, arg) ==
    IF arg.t = "str" /\ arg.s # <<>>
    THEN LET kept == SelectSeq(flatLogs,
                         LAMBDA log : Contains(ToLower(log.Body), ToLower(arg.s)))
         IN  [j \in 1..Len(kept) |-> [kept[j] EXCEPT !.Body = ToLower(kept[j].Body)]]
    ELSE flatLogs

BodyFilter(flatLogs, arg) ==
    IF arg.t = "str" /\ arg.s # <<>>
    THEN SelectSeq(flatLogs, LAMBDA log : Contains(ToLower(log.Body), ToLower(arg.s)))
    ELSE flatLogs

\* len(flatLogs) > limit
ExceedsLimit(n, lim) == lim.cls = "min" \/ n > lim.v

\* Variant: the slice is not cut.
Truncate_KeepAll(flatLogs, lim) == flatLogs

\* flatLogs[:limit]
Truncate(flatLogs, lim) == SubSeq(flatLogs, 1, lim.v)

(***************************************************************************)
(* Span query (api/spans).                                                 *)
(***************************************************************************)
\* A float64 that is the quotient num / den, kept exact.
Ratio(num, den) == [num |-> num, den |-> den]

\* x >= f for a quotient x and a float f given in halves.  A "big" float
\* exceeds every quotient the model builds.
RatioGE(x, f) == f.cls = "fin" /\ 2 * x.num >= f.h * x.den

\* Variant: the start time is set as soon as startTimeUnixNano parses.
SpanTimes_StartAlone(spanMap) ==
    LET st == IF spanMap.startTimeUnixNano.t = "str"
              THEN ParseInt(spanMap.startTimeUnixNano.s) ELSE [ok |-> FALSE, v |-> 0]
        en == IF spanMap.endTimeUnixNano.t = "str"
              THEN ParseInt(spanMap.endTimeUnixNano.s) ELSE [ok |-> FALSE, v |-> 0]
    IN  [DurationMs |-> IF st.ok /\ en.ok THEN Ratio(en.v - st.v, 1000000)
                        ELSE Ratio(0, 1000000),
         StartTime |-> IF st.ok THEN FormatNanos(st.v) ELSE NoTimeText,
         EndTime |-> IF st.ok /\ en.ok THEN FormatNanos(en.v) ELSE NoTimeText]

SpanTimes(spanMap) ==
    IF spanMap.startTimeUnixNano.t = "str" /\ spanMap.endTimeUnixNano.t = "str"
    THEN LET st == ParseInt(spanMap.startTimeUnixNano.s)
             en == ParseInt(spanMap.endTimeUnixNano.s)
         IN  IF st.ok /\ en.ok
             THEN [DurationMs |-> Ratio(en.v - st.v, 1000000),
                   StartTime |-> FormatNanos(st.v), EndTime |-> FormatNanos(en.v)]
             ELSE [DurationMs |-> Ratio(0, 1000000),
                   StartTime |-> NoTimeText, EndTime |-> NoTimeText]
    ELSE [DurationMs |-> Ratio(0, 1000000), StartTime |-> NoTimeText, EndTime |-> NoTimeText]

\* The FlatSpan built from one span.
FlatSpanOf(spanMap, serviceName) ==
    LET times == SpanTimes(spanMap) IN
    [ServiceName |-> serviceName,
     DurationMs  |-> times.DurationMs,
     StartTime   |-> times.StartTime,
     EndTime     |-> times.EndTime,
     Attributes  |-> extractSpanAttributes(spanMap)]

\* The loop over spans: one record per entry that is an object.
SpanRecordsOf(spanList, serviceName) ==
    LET spanMaps == SelectSeq(spanList, LAMBDA sp : sp.t = "obj") IN
    [j \in 1..Len(spanMaps) |-> FlatSpanOf(spanMaps[j], serviceName)]

RECURSIVE FlattenSpanScopes(_, _, _)
FlattenSpanScopes(scopeSpans, serviceName, i) ==
    IF i > Len(scopeSpans) THEN <<>>
    ELSE (IF scopeSpans[i].t = "obj" /\ scopeSpans[i].leaves.t = "arr"
          THEN SpanRecordsOf(scopeSpans[i].leaves.items, serviceName)
          ELSE <<>>)
         \o FlattenSpanScopes(scopeSpans, serviceName, i + 1)

RECURSIVE FlattenSpanGroups(_, _)
FlattenSpanGroups(resourceSpans, i) ==
    IF i > Len(resourceSpans) THEN <<>>
    ELSE (IF resourceSpans[i].t = "obj" /\ resourceSpans[i].scopes.t = "arr"
          THEN FlattenSpanScopes(resourceSpans[i].scopes.items,
                                 extractServiceName(resourceSpans[i]), 1)
          ELSE <<>>)
         \o FlattenSpanGroups(resourceSpans, i + 1)

flattenSpansResponse(data) ==
    IF data.t # "obj" THEN <<>>
    ELSE IF data.payload.key # "resourceSpans" \/ data.payload.t # "arr" THEN <<>>
    ELSE FlattenSpanGroups(data.payload.groups, 1)

\* The outcomes of int(statusCode) when http_status_code is a number.
StatusCodeInts(arg) == IF arg.t = "num" THEN FloatToInt(arg.f) ELSE {GoI(0)}

ServiceNameFilter(arg) ==
    IF arg.t = "str" /\ arg.s # "" THEN <<StringFilter("service.name", arg.s)>> ELSE <<>>

HttpMethodFilter(arg) ==
    IF arg.t = "str" /\ arg.s # "" THEN <<StringFilter("http.request.method", arg.s)>> ELSE <<>>

\* Variant: a status code of 0 is treated as not given.
HttpStatusCodeFilter_SkipZero(arg, code) ==
    IF arg.t = "num" /\ code # GoI(0)
    THEN <<IntFilter("http.response.status_code", Itoa(code))>>
    ELSE <<>>

HttpStatusCodeFilter(arg, code) ==
    IF arg.t = "num" THEN <<IntFilter("http.response.status_code", Itoa(code))>> ELSE <<>>

SpanNameFilter(arg) ==
    IF arg.t = "str" /\ arg.s # "" THEN <<StringFilter("name", arg.s)>> ELSE <<>>

ErrorOnlyFilter(arg) ==
    IF arg.t = "bool" /\ arg.b THEN <<IntFilter("status.code", "2")>> ELSE <<>>

\* The filter list of a span query; code is the outcome of int(statusCode).
SpansFilters(a, code) ==
    ServiceNameFilter(a.service_name)
    \o HttpMethodFilter(a.http_method)
    \o HttpStatusCodeFilter(a.http_status_code, code)
    \o SpanNameFilter(a.span_name)
    \o ErrorOnlyFilter(a.error_only)

SpansMinutes(arg) ==
    IF arg.t = "num" /\ FloatPositive(arg.f)
    THEN {ClampInt(m, 1440) : m \in FloatToInt(arg.f)}
    ELSE {GoI(60)}

SpansLimit(arg) ==
    IF arg.t = "num" /\ FloatPositive(arg.f)
    THEN {ClampInt(l, 200) : l \in FloatToInt(arg.f)}
    ELSE {GoI(100)}

\* Pagination{Limit: limit}
SpansPageSize(lim) == lim

\* Variant: strictly above the threshold.
DurationFilter_Strict(flatSpans, arg) ==
    IF arg.t = "num" /\ FloatPositive(arg.f)
    THEN SelectSeq(flatSpans,
             LAMBDA span : RatioGE(span.DurationMs, arg.f)
                           /\ 2 * span.DurationMs.num # arg.f.h * span.DurationMs.den)
    ELSE flatSpans

DurationFilter(flatSpans, arg) ==
    IF arg.t = "num" /\ FloatPositive(arg.f)
    THEN SelectSeq(flatSpans, LAMBDA span : RatioGE(span.DurationMs, arg.f))
    ELSE flatSpans

\* The span list put in the envelope: the handler applies no limit to it.
SpansRecords(flatSpans, lim) == flatSpans

(***************************************************************************)
(* Bounds and input sets.                                                  *)
(***************************************************************************)
\* Longest leaf list of a generated payload.
MaxLeaves == 2

\* Clock readings: whole seconds since the epoch, plus nanoseconds.
Clock == {[sec |-> 200000, nsec |-> 0], [sec |-> 200001, nsec |-> 500000000]}

\* Every sequence over S of length at most n.
RECURSIVE SeqsUpTo(_, _)
SeqsUpTo(S, n) ==
    IF n = 0 THEN {<<>>}
    ELSE LET shorter == SeqsUpTo(S, n - 1) IN
         shorter \cup {Append(q, x) : q \in {r \in shorter : Len(r) = n - 1}, x \in S}

NoArgs ==
    [service_name |-> Absent, http_method |-> Absent, http_status_code |-> Absent,
     span_name |-> Absent, error_only |-> Absent, time_range_minutes |-> Absent,
     limit |-> Absent, min_severity |-> Absent, body_contains |-> AbsentText,
     min_duration_ms |-> Absent]

\* Numbers tried for time_range_minutes and limit (in halves), and the
\* values that are not numbers.
MinuteArgs ==
    {Absent, StrArg("30"), NumArg(Big)}
    \cup {NumArg(Fin(h)) : h \in {-2, 0, 1, 60, 2880, 2881, 2882, 4000}}

LimitArgs ==
    {Absent, StrArg("5"), NumArg(Big)}
    \cup {NumArg(Fin(h)) : h \in {-2, 0, 1, 2, 4, 5, 1000, 1002, 20000}}

ServiceArgs == {Absent, StrArg(""), StrArg("cart"), NumArg(Fin(2))}

SeverityArgs ==
    {Absent, StrArg(""), StrArg("INFO"), StrArg("ERROR"), StrArg("error"), StrArg("CRITICAL")}

BodyArgs == {AbsentText, TextArg(<<>>), TextArg(<<"e", "R">>)}

\* Argument maps of the log query: the filter parameters crossed, the time
\* ranges, and the limits crossed with the post-filters.
LogsArgs ==
    {[NoArgs EXCEPT !.service_name = sn, !.min_severity = sv, !.body_contains = bc,
                    !.limit = l] :
        sn \in ServiceArgs, sv \in SeverityArgs, bc \in BodyArgs,
        l \in {Absent, NumArg(Fin(2)), NumArg(Fin(4))}}
    \cup
    {[NoArgs EXCEPT !.service_name = sn, !.time_range_minutes = m] :
        sn \in {Absent, StrArg("cart")}, m \in MinuteArgs}
    \cup
    {[NoArgs EXCEPT !.limit = l, !.min_severity = sv, !.body_contains = bc] :
        l \in LimitArgs, sv \in {Absent, StrArg("ERROR")},
        bc \in {AbsentText, TextArg(<<"e", "R">>)}}

SpanLimitArgs ==
    {Absent, StrArg("5"), NumArg(Big)}
    \cup {NumArg(Fin(h)) : h \in {-2, 0, 1, 2, 4, 5, 400, 402, 20000}}

DurationArgs ==
    {Absent, StrArg("100"), NumArg(Big)}
    \cup {NumArg(Fin(h)) : h \in {-2, 0, 1, 100, 200, 201, 400}}

\* Argument maps of the span query, sliced the same way.
SpansArgs ==
    {[NoArgs EXCEPT !.service_name = sn, !.http_method = hm, !.http_status_code = sc,
                    !.span_name = nm, !.error_only = eo, !.min_duration_ms = md] :
        sn \in {Absent, StrArg(""), StrArg("cart")},
        hm \in {Absent, StrArg(""), StrArg("GET")},
        sc \in {Absent, StrArg("500"), NumArg(Fin(0)), NumArg(Fin(1000)), NumArg(Big)},
        nm \in {Absent, StrArg(""), StrArg("op")},
        eo \in {Absent, StrArg("true"), BoolArg(FALSE), BoolArg(TRUE)},
        md \in {NumArg(Fin(200))}}
    \cup
    {[NoArgs EXCEPT !.service_name = sn, !.time_range_minutes = m] :
        sn \in {Absent, StrArg("cart")}, m \in MinuteArgs}
    \cup
    {[NoArgs EXCEPT !.limit = l, !.min_duration_ms = md] :
        l \in SpanLimitArgs, md \in DurationArgs}

LogLeaves ==
    {LogLeaf(NumArg(Fin(18)), TextArg(<<"o", "k">>)),
     LogLeaf(NumArg(Fin(34)), TextArg(<<"E", "r">>)),
     LogLeaf(Absent, AbsentText)}

CartAttrs == <<Attr("host.name", StrLeaf("h1")), Attr("service.name", StrLeaf("cart"))>>

\* Attribute lists in which service.name occurs more than once, or with a
\* value that is not a string, or beside entries of the wrong shape.
OddAttrs ==
    {<<Attr("service.name", StrLeaf("cart")), Attr("service.name", StrLeaf("pay"))>>,
     <<Attr("service.name", OtherLeaf), Attr("service.name", StrLeaf("pay"))>>,
     <<Attr("service.name", NoLeaf), Attr("host.name", StrLeaf("h1"))>>,
     <<AttrOf(StrLeaf("service.name"), "other", NoLeaf), Attr("service.name", StrLeaf("pay"))>>,
     <<NotAnAttr, AttrOf(OtherLeaf, "obj", StrLeaf("x")), Attr("service.name", StrLeaf("cart"))>>,
     <<Attr("service.names", StrLeaf("x")), Attr("Service.Name", StrLeaf("y"))>>,
     <<Attr("service.name", StrLeaf(""))>>}

\* The resources tried for a group.
Resources ==
    {Resource(Arr(as)) : as \in OddAttrs}
    \cup {NoResource, Resource(Missing), Resource(Wrong), Resource(Arr(<<>>))}

Ms50 == <<"5", "0", "0", "0", "0", "0", "0", "0">>

Ms100 == <<"1", "0", "0", "0", "0", "0", "0", "0", "0">>

Ms200 == <<"2", "0", "0", "0", "0", "0", "0", "0", "0">>

\* Attribute lists of a leaf: values that hold several of stringValue,
\* intValue and boolValue, values of the wrong type, entries of the wrong
\* shape, keys that occur twice, keys on and off the span allow-list.
AttrLists ==
    <<
      <<KV("http.route", StrLeaf("/a"), TextArg(<<"7">>), BoolArg(TRUE)),
        KV("http.user_agent", StrLeaf("curl"), AbsentText, Absent)>>,
      <<KV("db.system", NoLeaf, TextArg(<<"7">>), BoolArg(TRUE)),
        KV("thread.id", NoLeaf, TextArg(<<"-", "4">>), Absent)>>,
      <<KV("error.type", NoLeaf, AbsentText, BoolArg(TRUE)),
        KV("retry", NoLeaf, AbsentText, BoolArg(FALSE))>>,
      <<KV("http.route", NoLeaf, TextArg(<<"x">>), BoolArg(TRUE))>>,
      <<KV("http.route", OtherLeaf, TextArg(<<"7">>), Absent),
        KV("db.system", OtherLeaf, AbsentText, BoolArg(FALSE))>>,
      <<KV("http.route", NoLeaf, NumArg(Fin(14)), BoolArg(FALSE)),
        KV("db.system", NoLeaf, AbsentText, StrArg("true"))>>,
      <<NotAKV, KVOf(OtherLeaf, "obj", StrLeaf("v"), AbsentText, Absent),
        KVOf(StrLeaf("http.route"), "other", StrLeaf("/a"), AbsentText, Absent),
        KVOf(NoLeaf, "obj", StrLeaf("v"), AbsentText, Absent),
        KV("db.system", StrLeaf("pg"), AbsentText, Absent)>>,
      <<KV("http.route", StrLeaf("/a"), AbsentText, Absent),
        KV("http.route", NoLeaf, TextArg(<<"7">>), Absent)>>,
      <<KV("http.route", StrLeaf("/a"), AbsentText, Absent),
        KV("http.route", NoLeaf, AbsentText, Absent)>>,
      <<KV("http.route", NoLeaf, AbsentText, Absent)>>,
      <<>>
    >>

\* The attributes tried for a leaf.
LeafAttributes == {Arr(AttrLists[i]) : i \in DOMAIN AttrLists} \cup {Missing, Wrong}

\* A set as a sequence, in some order.
RECURSIVE SeqOfSet(_)
SeqOfSet(S) ==
    IF S = {} THEN <<>>
    ELSE LET x == CHOOSE y \in S : TRUE IN <<x>> \o SeqOfSet(S \ {x})

\* Log records that differ in their attributes, and in their timestamps:
\* timeUnixNano and observedTimeUnixNano each absent, a decimal text, a text
\* that is no number, a JSON number.
AttrLogLeaves ==
    {LogLeafOf(AbsentText, AbsentText, NumArg(Fin(18)), TextArg(<<"o", "k">>), a) :
        a \in LeafAttributes}

TimeLogLeaves ==
    {LogLeafOf(tm, ob, NumArg(Fin(34)), TextArg(<<"E", "r">>), Missing) :
        tm \in {AbsentText, TextArg(Ms50), TextArg(<<"x">>), NumArg(Fin(2))},
        ob \in {AbsentText, TextArg(Ms100), TextArg(<<"x">>), NumArg(Fin(2))}}

ErLog == LogLeaf(NumArg(Fin(34)), TextArg(<<"E", "r">>))

OkLog == LogLeaf(NumArg(Fin(18)), TextArg(<<"o", "k">>))

\* Resource groups, scope groups and leaf lists that are absent, empty or of
\* the wrong type, beside well-formed ones.
OddLogGroups ==
    {<<NotAGroup, Group(CartAttrs, << <<ErLog>> >>)>>,
     <<GroupOf(Resource(Arr(CartAttrs)), Missing), Group(<<>>, << <<OkLog>> >>)>>,
     <<GroupOf(Resource(Arr(CartAttrs)), Wrong), Group(CartAttrs, << <<OkLog, ErLog>> >>)>>,
     <<GroupOf(Resource(Arr(CartAttrs)), Arr(<<>>))>>,
     <<GroupOf(Resource(Arr(CartAttrs)),
               Arr(<<NotAScope, Scope(Missing), Scope(Arr(<<ErLog>>)), Scope(Wrong),
                     Scope(Arr(<<>>)), Scope(Arr(<<NotALogRecord, OkLog>>))>>))>>,
     <<Group(CartAttrs, << <<NotALogRecord>> >>)>>}

LogsPayloads ==
    {Payload("resourceLogs", <<Group(CartAttrs, <<ls>>)>>) :
        ls \in SeqsUpTo(LogLeaves, MaxLeaves)}
    \cup
    {Payload("resourceLogs", <<>>),
     WrongPayload("resourceLogs"),
     Payload("resourceSpans", <<Group(CartAttrs, << <<OkLog>> >>)>>),
     Payload("resourceLogs", <<Group(<<>>, <<>>)>>),
     Payload("resourceLogs",
             <<Group(CartAttrs, << <<LogLeaf(NumArg(Fin(34)), TextArg(<<"E", "r">>))>>,
                                   <<LogLeaf(NumArg(Fin(18)), TextArg(<<"o", "k">>))>> >>),
               Group(<<>>, << <<LogLeaf(NumArg(Fin(42)), TextArg(<<"e", "r", "r">>))>> >>)>>)}
    \cup {Payload("resourceLogs", gs) : gs \in OddLogGroups}
    \cup {Payload("resourceLogs", <<GroupOf(r, Arr(<<Scope(Arr(<<OkLog>>))>>))>>) :
            r \in Resources}
    \cup {Payload("resourceLogs", <<Group(CartAttrs, <<SeqOfSet(AttrLogLeaves)>>)>>),
          Payload("resourceLogs",
                  <<Group(CartAttrs, << <<LogLeaf(NumArg(Fin(-2)), TextArg(<<"E", "r">>)),
                                          LogLeaf(Absent, TextArg(<<"o", "k">>)),
                                          ErLog>> >>)>>)}
    \cup {Payload("resourceLogs", <<Group(CartAttrs, <<SeqOfSet({l \in TimeLogLeaves : l.observedTimeUnixNano = ob})>>)>>) :
            ob \in {l.observedTimeUnixNano : l \in TimeLogLeaves}}

SpanLeaves ==
    {SpanLeaf(TextArg(<<"0">>), TextArg(Ms50)),
     SpanLeaf(TextArg(<<"0">>), TextArg(Ms100)),
     SpanLeaf(Absent, TextArg(Ms200))}

\* Spans that differ in their attributes, and in their start and end.
AttrSpanLeaves ==
    {SpanLeafOf(TextArg(<<"0">>), TextArg(Ms50), a) : a \in LeafAttributes}

TimeSpanLeaves ==
    {SpanLeaf(st, en) :
        st \in {Absent, TextArg(Ms50), TextArg(<<"x">>), NumArg(Fin(2))},
        en \in {Absent, TextArg(Ms200), TextArg(<<"x">>), TextArg(<<"0">>)}}

Span50 == SpanLeaf(TextArg(<<"0">>), TextArg(Ms50))

Span200 == SpanLeaf(TextArg(<<"0">>), TextArg(Ms200))

OddSpanGroups ==
    {<<NotAGroup, Group(CartAttrs, << <<Span200>> >>)>>,
     <<GroupOf(Resource(Arr(CartAttrs)), Missing), Group(<<>>, << <<Span50>> >>)>>,
     <<GroupOf(Resource(Arr(CartAttrs)), Wrong), Group(CartAttrs, << <<Span50, Span200>> >>)>>,
     <<GroupOf(Resource(Arr(CartAttrs)), Arr(<<>>))>>,
     <<GroupOf(Resource(Arr(CartAttrs)),
               Arr(<<NotAScope, Scope(Missing), Scope(Arr(<<Span200>>)), Scope(Wrong),
                     Scope(Arr(<<>>)), Scope(Arr(<<NotASpan, Span50>>))>>))>>,
     <<Group(CartAttrs, << <<NotASpan>> >>)>>}

SpansPayloads ==
    {Payload("resourceSpans", <<Group(CartAttrs, <<ls>>)>>) :
        ls \in SeqsUpTo(SpanLeaves, MaxLeaves)}
    \cup
    {Payload("resourceSpans", <<>>),
     WrongPayload("resourceSpans"),
     Payload("resourceLogs", <<Group(CartAttrs, << <<Span50>> >>)>>),
     Payload("resourceSpans", <<Group(<<>>, <<>>)>>),
     Payload("resourceSpans",
             <<Group(CartAttrs, << <<SpanLeaf(TextArg(Ms50), TextArg(Ms100))>>,
                                   <<SpanLeaf(TextArg(<<"0">>), TextArg(Ms200))>> >>),
               Group(<<>>, << <<SpanLeaf(TextArg(<<"x">>), TextArg(Ms200))>> >>)>>)}
    \cup {Payload("resourceSpans", gs) : gs \in OddSpanGroups}
    \cup {Payload("resourceSpans", <<GroupOf(r, Arr(<<Scope(Arr(<<Span50>>))>>))>>) :
            r \in Resources}
    \cup {Payload("resourceSpans", <<Group(CartAttrs, <<SeqOfSet(AttrSpanLeaves)>>)>>)}
    \cup {Payload("resourceSpans", <<Group(CartAttrs, <<SeqOfSet({l \in TimeSpanLeaves : l.startTimeUnixNano = st})>>)>>) :
            st \in {Absent, TextArg(Ms50), TextArg(<<"x">>), NumArg(Fin(2))}}

\* The strings found in error bodies, one per key and place, so that a
\* detail tells where it was taken from.
Texts ==
    [error   |-> [str |-> "error", detail |-> "error.detail",
                  message |-> "error.message", first |-> "error[0]"],
     message |-> [str |-> "message", detail |-> "message.detail",
                  message |-> "message.message", first |-> "message[0]"],
     detail  |-> [str |-> "detail", detail |-> "detail.detail",
                  message |-> "detail.message", first |-> "detail[0]"],
     errors  |-> [str |-> "errors", detail |-> "errors.detail",
                  message |-> "errors.message", first |-> "errors[0]"]]

\* The values tried under key k.
EVs(k) ==
    {EVAbsent, EVStr(Texts[k].str), EVOther,
     EVObj(StrLeaf(Texts[k].detail), StrLeaf(Texts[k].message)),
     EVObj(OtherLeaf, StrLeaf(Texts[k].message)),
     EVObj(NoLeaf, NoLeaf),
     EVArrEmpty, EVArrStr(Texts[k].first), EVArrOther,
     EVArrObj(StrLeaf(Texts[k].detail), NoLeaf)}

ErrBodies ==
    {[error |-> e, message |-> m, detail |-> d, errors |-> es] :
        e \in EVs("error"), m \in EVs("message"), d \in EVs("detail"), es \in EVs("errors")}

\* Responses that are not a telemetry payload.
PlainResponses ==
    {Response("fail", 0, Body("empty", NoErrKeys, NoPayload)),
     Response("readfail", 200, Body("empty", NoErrKeys, NoPayload)),
     Response("ok", 200, Body("object", NoErrKeys, NoPayload)),
     Response("ok", 304, Body("object", [NoErrKeys EXCEPT !.message = EVStr("message")],
                              NoPayload)),
     Response("ok", 404, Body("object", NoErrKeys, NoPayload)),
     Response("ok", 500, Body("object", [NoErrKeys EXCEPT !.message = EVStr("message")],
                              NoPayload))}
    \cup
    {Response("ok", st, Body(raw, NoErrKeys, NoPayload)) :
        st \in {200, 503}, raw \in {"empty", "null", "nonjson", "array"}}

\* Responses to a plain request.
ClientResponses ==
    PlainResponses
    \cup {Response("ok", 422, Body("object", ek, NoPayload)) : ek \in ErrBodies}
    \cup {Response("ok", st, Body("object", [NoErrKeys EXCEPT !.detail = EVStr("detail")],
                                  NoPayload)) :
            st \in {101, 199, 201, 204, 299, 300, 399, 401, 599}}

LogsResponses ==
    PlainResponses
    \cup {Response("ok", st, Body("object", NoErrKeys, pl)) : st \in {200}, pl \in LogsPayloads}
    \cup {Response("ok", st, Body("object", NoErrKeys, pl)) :
            st \in {302, 500}, pl \in {q \in LogsPayloads : Len(q.groups) = 2}}

SpansResponses ==
    PlainResponses
    \cup {Response("ok", st, Body("object", NoErrKeys, pl)) : st \in {200}, pl \in SpansPayloads}
    \cup {Response("ok", st, Body("object", NoErrKeys, pl)) :
            st \in {302, 500}, pl \in {q \in SpansPayloads : Len(q.groups) = 2}}

(***************************************************************************)
(* State.                                                                  *)
(*                                                                         *)
(* One invocation followed step by step:                                   *)
(*   pc        where the invocation stands: idle, waiting (request sent,  *)
(*             response outstanding), done (result returned), panic       *)
(*   handler   the operation invoked                                       *)
(*   args, now the arguments and the clock sample of the invocation       *)
(*   from, filters, limit   locals of the handler                         *)
(*   sent      the requests issued upstream by the invocation             *)
(*   received  the responses that came back                                *)
(*   flat      the flattened records; filtered: after the post-filters    *)
(*   result    the ToolResult returned                                     *)
(*                                                                         *)
(* Invocations running at the same time:                                   *)
(*   calls     per invocation: where it stands, what it was given          *)
(*             (handler, args, now), the request it sent, the response it *)
(*             received and the result it returned                         *)
(*   frames    per activation of a handler: its locals from, filters and  *)
(*             limit                                                       *)
(*                                                                         *)
(* The tool registry:                                                      *)
(*   tools     the registered tools: name -> handler                       *)
(*   enabled   the enabled filter: nil, or name -> bool                    *)
(*   called    the latest Registry.Call: the name asked for, the handlers *)
(*             it ran, the result it returned                              *)
(*   listed    the latest listing of the registry: which method was called *)
(*             and what it returned                                        *)
(***************************************************************************)
VARIABLES pc, handler, args, now, from, filters, limit, sent, received, flat, filtered, result,
          calls, frames, tools, enabled, called, listed

\* The variables of the invocation followed step by step.
invocation ==
    <<pc, handler, args, now, from, filters, limit, sent, received, flat, filtered, result>>

\* The variables of the invocations running at the same time.
concurrent == <<calls, frames>>

\* The variables of the registry.
registry == <<tools, enabled, called, listed>>

vars == <<invocation, concurrent, registry>>

NoTime == [sec |-> 0, nsec |-> 0]

NoResult == [Success |-> FALSE, Data |-> NilData, Error |-> NoError]

\* Goroutines serving tool calls at the same time.
Invocations == {1, 2}

IdleCall ==
    [pc |-> "idle", handler |-> "none", args |-> NoArgs, now |-> NoTime,
     sent |-> <<>>, received |-> <<>>, result |-> NoResult]

NoFrame == [from |-> NoTime, filters |-> <<>>, limit |-> GoI(0)]

\* map[string]ToolDef{}
NoTools == [n \in {} |-> "none"]

\* The enabled filter: nil (every tool enabled), or a map from names to
\* booleans.
NilFilter == [nil |-> TRUE, m |-> [n \in {} |-> FALSE]]

Filter(m) == [nil |-> FALSE, m |-> m]

NoCall == [name |-> "", ran |-> <<>>, result |-> NoResult]

NoListing == [op |-> "none", tools |-> <<>>, count |-> 0, names |-> <<>>]

\* The state before any tool call, for a registry built with the filter en.
InitWith(en) ==
    /\ pc = "idle"
    /\ handler = "none"
    /\ args = NoArgs
    /\ now = NoTime
    /\ from = NoTime
    /\ filters = <<>>
    /\ limit = GoI(0)
    /\ sent = <<>>
    /\ received = <<>>
    /\ flat = <<>>
    /\ filtered = <<>>
    /\ result = NoResult
    /\ calls = [p \in Invocations |-> IdleCall]
    /\ frames = [p \in Invocations |-> NoFrame]
    /\ tools = NoTools
    /\ enabled = en
    /\ called = NoCall
    /\ listed = NoListing

Init == InitWith(NilFilter)

QueryRequest(path, f, t, flt, pageSize) ==
    [method |-> "POST", path |-> path,
     TimeRange |-> [From |-> FormatRFC3339(f), To |-> FormatRFC3339(t)],
     Filter |-> flt,
     Pagination |-> pageSize]

\* Variant: the envelope echoes the page size asked of the upstream.
Envelope_EchoPageSize(records, f, t, flt, lim) ==
    [t |-> "envelope",
     records |-> records,
     count |-> Len(records),
     query |-> [time_range |-> [from |-> FormatRFC3339(f), to |-> FormatRFC3339(t)],
                filters |-> flt,
                limit |-> LogsPageSize(lim)]]

Envelope(records, f, t, flt, lim) ==
    [t |-> "envelope",
     records |-> records,
     count |-> Len(records),
     query |-> [time_range |-> [from |-> FormatRFC3339(f), to |-> FormatRFC3339(t)],
                filters |-> flt,
                limit |-> lim]]

\* Variant: only a failure that left no body counts.
RoundTripFailed_NoBodyOnly(r) == ~r.Success /\ r.Data = NilData

\* if !result.Success { return result }
RoundTripFailed(r) == ~r.Success

\* Variant: the request is issued a second time.
Post_Twice(req) == <<req, req>>

\* Client.Post: the requests one call puts on the wire.
Post(req) == <<req>>

\* QueryLogsHandler from the response on, given its locals: the records
\* flattened, the records kept, the result returned, and how it ends.
LogsOutcome(a, f, t, flt, lim, resp) ==
    LET r == Request(resp) IN
    IF RoundTripFailed(r)
    THEN [pc |-> "done", flat |-> <<>>, filtered |-> <<>>, result |-> r]
    ELSE LET flatLogs == flattenLogsResponse(r.Data)
             kept == BodyFilter(SeverityFilter(flatLogs, a.min_severity), a.body_contains)
         IN
         IF ExceedsLimit(Len(kept), lim) /\ lim.cls = "min"
         THEN \* slice bound out of range: the handler panics
              [pc |-> "panic", flat |-> flatLogs, filtered |-> kept, result |-> NoResult]
         ELSE [pc |-> "done", flat |-> flatLogs, filtered |-> kept,
               result |-> SuccessResult(
                   Envelope(IF ExceedsLimit(Len(kept), lim) THEN Truncate(kept, lim) ELSE kept,
                            f, t, flt, lim))]

\* QuerySpansHandler from the response on, given its locals.
SpansOutcome(a, f, t, flt, lim, resp) ==
    LET r == Request(resp) IN
    IF RoundTripFailed(r)
    THEN [pc |-> "done", flat |-> <<>>, filtered |-> <<>>, result |-> r]
    ELSE LET flatSpans == flattenSpansResponse(r.Data)
             kept == DurationFilter(flatSpans, a.min_duration_ms)
         IN
         [pc |-> "done", flat |-> flatSpans, filtered |-> kept,
          result |-> SuccessResult(Envelope(SpansRecords(kept, lim), f, t, flt, lim))]

\* QueryLogsHandler up to the round trip: filters, time range, limit and
\* the request.
QueryLogsCall ==
    /\ pc = "idle"
    /\ \E a \in LogsArgs, t \in Clock :
       \E minutes \in LogsMinutes(a.time_range_minutes), lim \in LogsLimit(a.limit) :
          LET f == TimeAdd(t, NegDuration(minutes)) IN
          /\ args' = a
          /\ now' = t
          /\ filters' = LogsFilters(a)
          /\ from' = f
          /\ limit' = lim
          /\ sent' = Post(QueryRequest("/api/logs", f, t, LogsFilters(a), LogsPageSize(lim)))
    /\ pc' = "waiting"
    /\ handler' = "logs"
    /\ UNCHANGED <<received, flat, filtered, result>>
    /\ UNCHANGED <<concurrent, registry>>

\* QueryLogsHandler from the response on.
QueryLogsReturn ==
    /\ pc = "waiting"
    /\ handler = "logs"
    /\ \E resp \in LogsResponses :
       LET o == LogsOutcome(args, from, now, filters, limit, resp) IN
       /\ received' = Append(received, resp)
       /\ flat' = o.flat
       /\ filtered' = o.filtered
       /\ result' = o.result
       /\ pc' = o.pc
    /\ UNCHANGED <<handler, args, now, from, filters, limit, sent>>
    /\ UNCHANGED <<concurrent, registry>>

\* QuerySpansHandler up to the round trip.
QuerySpansCall ==
    /\ pc = "idle"
    /\ \E a \in SpansArgs, t \in Clock :
       \E code \in StatusCodeInts(a.http_status_code),
          minutes \in SpansMinutes(a.time_range_minutes),
          lim \in SpansLimit(a.limit) :
          LET f == TimeAdd(t, NegDuration(minutes)) IN
          /\ args' = a
          /\ now' = t
          /\ from' = f
          /\ limit' = lim
          /\ filters' = SpansFilters(a, code)
          /\ sent' = Post(QueryRequest("/api/spans", f, t, SpansFilters(a, code),
                                       SpansPageSize(lim)))
    /\ pc' = "waiting"
    /\ handler' = "spans"
    /\ UNCHANGED <<received, flat, filtered, result>>
    /\ UNCHANGED <<concurrent, registry>>

\* QuerySpansHandler from the response on.
QuerySpansReturn ==
    /\ pc = "waiting"
    /\ handler = "spans"
    /\ \E resp \in SpansResponses :
       LET o == SpansOutcome(args, from, now, filters, limit, resp) IN
       /\ received' = Append(received, resp)
       /\ flat' = o.flat
       /\ filtered' = o.filtered
       /\ result' = o.result
       /\ pc' = o.pc
    /\ UNCHANGED <<handler, args, now, from, filters, limit, sent>>
    /\ UNCHANGED <<concurrent, registry>>

\* Client.Get: a plain request, its result returned as it is.
Get ==
    /\ pc = "idle"
    /\ \E resp \in ClientResponses :
       /\ received' = <<resp>>
       /\ result' = Request(resp)
    /\ pc' = "done"
    /\ handler' = "get"
    /\ sent' = <<[method |-> "GET", path |-> "/api/test"]>>
    /\ UNCHANGED <<args, now, from, filters, limit, flat, filtered>>
    /\ UNCHANGED <<concurrent, registry>>

\* The invocation is over; nothing of it is kept.
Finish ==
    /\ pc = "done"
    /\ pc' = "idle"
    /\ handler' = "none"
    /\ args' = NoArgs
    /\ now' = NoTime
    /\ from' = NoTime
    /\ filters' = <<>>
    /\ limit' = GoI(0)
    /\ sent' = <<>>
    /\ received' = <<>>
    /\ flat' = <<>>
    /\ filtered' = <<>>
    /\ result' = NoResult
    /\ UNCHANGED <<concurrent, registry>>

Next ==
    \/ QueryLogsCall
    \/ QueryLogsReturn
    \/ QuerySpansCall
    \/ QuerySpansReturn
    \/ Get
    \/ Finish

Spec == Init /\ [][Next]_vars

(***************************************************************************)
(* Invocations running at the same time.  The MCP server runs each tool   *)
(* call in a goroutine of its own; all of them go through the one         *)
(* Package and the one Client, neither of which has a field that is       *)
(* written after construction.  Each activation of a handler has its own  *)
(* locals.                                                                 *)
(***************************************************************************)
ConcLogsArgs ==
    {[NoArgs EXCEPT !.service_name = StrArg("cart"), !.limit = NumArg(Fin(2))],
     [NoArgs EXCEPT !.min_severity = StrArg("ERROR"), !.time_range_minutes = NumArg(Fin(10))],
     [NoArgs EXCEPT !.limit = NumArg(Big)]}

ConcSpansArgs ==
    {[NoArgs EXCEPT !.service_name = StrArg("pay"), !.error_only = BoolArg(TRUE)],
     [NoArgs EXCEPT !.min_duration_ms = NumArg(Fin(200)), !.limit = NumArg(Fin(6))]}

ConcLogsResponses ==
    {Response("fail", 0, Body("empty", NoErrKeys, NoPayload)),
     Response("ok", 200, Body("object", NoErrKeys,
                              Payload("resourceLogs", <<Group(CartAttrs, << <<OkLog, ErLog>> >>)>>))),
     Response("ok", 503, Body("object", [NoErrKeys EXCEPT !.message = EVStr("message")],
                              NoPayload))}

ConcSpansResponses ==
    {Response("fail", 0, Body("empty", NoErrKeys, NoPayload)),
     Response("ok", 200, Body("object", NoErrKeys,
                              Payload("resourceSpans",
                                      <<Group(CartAttrs, << <<Span50, Span200>> >>)>>)))}

\* Variant: the locals are package-level variables, one set for all.
FrameOf_Shared(p) == 1

\* The activation in which invocation p keeps its locals (filters, now,
\* minutes, from, limit are declared inside the handler function).
FrameOf(p) == p

\* The server process is alive: no handler has panicked (the server is built
\* without a recovery option, so a panic in a tool call ends the process).
Running == \A q \in Invocations : calls[q].pc # "panic"

\* QueryLogsHandler up to the round trip, run by invocation p.
ConcLogsCall(p) ==
    /\ Running
    /\ calls[p].pc = "idle"
    /\ \E a \in ConcLogsArgs, t \in Clock :
       \E minutes \in LogsMinutes(a.time_range_minutes), lim \in LogsLimit(a.limit) :
          LET f == TimeAdd(t, NegDuration(minutes)) IN
          /\ frames' = [frames EXCEPT ![FrameOf(p)] =
                           [from |-> f, filters |-> LogsFilters(a), limit |-> lim]]
          /\ calls' = [calls EXCEPT ![p] =
                          [pc |-> "waiting", handler |-> "logs", args |-> a, now |-> t,
                           sent |-> Post(QueryRequest("/api/logs", f, t, LogsFilters(a),
                                                      LogsPageSize(lim))),
                           received |-> <<>>, result |-> NoResult]]
    /\ UNCHANGED <<invocation, registry>>

\* QueryLogsHandler from the response on, run by invocation p.
ConcLogsReturn(p) ==
    /\ Running
    /\ calls[p].pc = "waiting"
    /\ calls[p].handler = "logs"
    /\ \E resp \in ConcLogsResponses :
       LET fr == frames[FrameOf(p)]
           o == LogsOutcome(calls[p].args, fr.from, calls[p].now, fr.filters, fr.limit, resp)
       IN  calls' = [calls EXCEPT ![p].pc = o.pc,
                                  ![p].received = <<resp>>,
                                  ![p].result = o.result]
    /\ UNCHANGED <<frames, invocation, registry>>

\* QuerySpansHandler up to the round trip, run by invocation p.
ConcSpansCall(p) ==
    /\ Running
    /\ calls[p].pc = "idle"
    /\ \E a \in ConcSpansArgs, t \in Clock :
       \E code \in StatusCodeInts(a.http_status_code),
          minutes \in SpansMinutes(a.time_range_minutes),
          lim \in SpansLimit(a.limit) :
          LET f == TimeAdd(t, NegDuration(minutes)) IN
          /\ frames' = [frames EXCEPT ![FrameOf(p)] =
                           [from |-> f, filters |-> SpansFilters(a, code), limit |-> lim]]
          /\ calls' = [calls EXCEPT ![p] =
                          [pc |-> "waiting", handler |-> "spans", args |-> a, now |-> t,
                           sent |-> Post(QueryRequest("/api/spans", f, t, SpansFilters(a, code),
                                                      SpansPageSize(lim))),
                           received |-> <<>>, result |-> NoResult]]
    /\ UNCHANGED <<invocation, registry>>

\* QuerySpansHandler from the response on, run by invocation p.
ConcSpansReturn(p) ==
    /\ Running
    /\ calls[p].pc = "waiting"
    /\ calls[p].handler = "spans"
    /\ \E resp \in ConcSpansResponses :
       LET fr == frames[FrameOf(p)]
           o == SpansOutcome(calls[p].args, fr.from, calls[p].now, fr.filters, fr.limit, resp)
       IN  calls' = [calls EXCEPT ![p].pc = o.pc,
                                  ![p].received = <<resp>>,
                                  ![p].result = o.result]
    /\ UNCHANGED <<frames, invocation, registry>>

\* Invocation p is over: its activation is gone.
ConcFinish(p) ==
    /\ Running
    /\ calls[p].pc = "done"
    /\ calls' = [calls EXCEPT ![p] = IdleCall]
    /\ frames' = [frames EXCEPT ![FrameOf(p)] = NoFrame]
    /\ UNCHANGED <<invocation, registry>>

NextConcurrent ==
    \/ \E p \in Invocations : ConcLogsCall(p)
    \/ \E p \in Invocations : ConcLogsReturn(p)
    \/ \E p \in Invocations : ConcSpansCall(p)
    \/ \E p \in Invocations : ConcSpansReturn(p)
    \/ \E p \in Invocations : ConcFinish(p)

SpecConcurrent == Init /\ [][NextConcurrent]_vars

(***************************************************************************)
(* Tool registry (internal/registry).                                      *)
(***************************************************************************)
ToolNames == {"dash0_logs_query", "dash0_spans_query", "dash0_other"}

\* Handlers that can be registered; each returns a result that tells which
\* handler ran.
Handlers == {"h1", "h2"}

HandlerResult(h) == SuccessResult([t |-> "handled", by |-> h])

\* The filters a registry is built with.
EnabledFilters ==
    {NilFilter,
     Filter([n \in {} |-> FALSE]),
     Filter([n \in {"dash0_logs_query"} |-> TRUE]),
     Filter([n \in {"dash0_logs_query", "dash0_spans_query"} |-> n = "dash0_logs_query"]),
     Filter([n \in {"dash0_other", "dash0_spans_query"} |-> TRUE])}

\* r.enabled[name]: a missing key reads as false.
Lookup(m, name) == IF name \in DOMAIN m THEN m[name] ELSE FALSE

\* Variant: a name the filter lists counts, whatever it is mapped to.
IsEnabled_Listed(en, name) == en.nil \/ name \in DOMAIN en.m

\* r.enabled == nil || r.enabled[name]
IsEnabled(en, name) == en.nil \/ Lookup(en.m, name)

\* Registry.Register: the tool is stored under its name, replacing an
\* earlier one of that name.
Register(name, h) ==
    /\ tools' = [n \in DOMAIN tools \cup {name} |-> IF n = name THEN h ELSE tools[n]]
    /\ UNCHANGED <<enabled, called, listed, invocation, concurrent>>

\* Registry.Call
Call(name) ==
    /\ called' =
          IF name \notin DOMAIN tools
          THEN [name |-> name, ran |-> <<>>,
                result |-> ErrorResult(404, "tool " \o name \o " not found")]
          ELSE IF ~IsEnabled(enabled, name)
          THEN [name |-> name, ran |-> <<>>,
                result |-> ErrorResult(403, "tool " \o name
                                            \o " is not enabled in current profile")]
          ELSE [name |-> name, ran |-> <<tools[name]>>, result |-> HandlerResult(tools[name])]
    /\ UNCHANGED <<tools, enabled, listed, invocation, concurrent>>

\* The order of tool names under <.
NameRank == ("dash0_logs_query" :> 1) @@ ("dash0_other" :> 2) @@ ("dash0_spans_query" :> 3)

\* One pass of a sort: x put into the ascending sequence sorted.
RECURSIVE Insert(_, _)
Insert(x, sorted) ==
    IF sorted = <<>> THEN <<x>>
    ELSE IF NameRank[x] < NameRank[Head(sorted)] THEN <<x>> \o sorted
    ELSE <<Head(sorted)>> \o Insert(x, Tail(sorted))

\* sort.Strings, and sort.Slice by Name, of names that differ pairwise.
RECURSIVE SortNames(_)
SortNames(names) ==
    IF names = <<>> THEN <<>> ELSE Insert(Head(names), SortNames(Tail(names)))

\* Registry.GetEnabledTools: the tools appended in the order of one
\* iteration of the map, then sorted.
GetEnabledTools(tl, en) ==
    LET names == SortNames(SeqOfSet({name \in DOMAIN tl : en.nil \/ Lookup(en.m, name)}))
    IN  [i \in 1..Len(names) |-> [Name |-> names[i], def |-> tl[names[i]]]]

\* Variant: the entries the filter maps to true are counted.
EnabledCount_OfFilter(tl, en) ==
    IF en.nil THEN Cardinality(DOMAIN tl)
    ELSE Cardinality({name \in DOMAIN en.m : en.m[name]})

\* Registry.EnabledCount
EnabledCount(tl, en) ==
    IF en.nil THEN Cardinality(DOMAIN tl)
    ELSE Cardinality({name \in DOMAIN tl : Lookup(en.m, name)})

\* Registry.EnabledToolNames
EnabledToolNames(tl, en) ==
    SortNames(SeqOfSet({name \in DOMAIN tl : en.nil \/ Lookup(en.m, name)}))

\* A caller lists the enabled tools.
ListEnabledTools ==
    /\ listed' = [NoListing EXCEPT !.op = "GetEnabledTools",
                                   !.tools = GetEnabledTools(tools, enabled)]
    /\ UNCHANGED <<tools, enabled, called, invocation, concurrent>>

\* A caller asks for the number of enabled tools.
CountEnabled ==
    /\ listed' = [NoListing EXCEPT !.op = "EnabledCount",
                                   !.count = EnabledCount(tools, enabled)]
    /\ UNCHANGED <<tools, enabled, called, invocation, concurrent>>

\* A caller lists the names of the enabled tools.
ListEnabledNames ==
    /\ listed' = [NoListing EXCEPT !.op = "EnabledToolNames",
                                   !.names = EnabledToolNames(tools, enabled)]
    /\ UNCHANGED <<tools, enabled, called, invocation, concurrent>>

NextRegistry ==
    \/ \E name \in ToolNames, h \in Handlers : Register(name, h)
    \/ \E name \in ToolNames : Call(name)
    \/ ListEnabledTools
    \/ CountEnabled
    \/ ListEnabledNames

InitRegistry == \E en \in EnabledFilters : InitWith(en)

SpecRegistry == InitRegistry /\ [][NextRegistry]_vars

(***************************************************************************)
(* Properties.                                                             *)
(***************************************************************************)
Min(a, b) == IF a < b THEN a ELSE b

QueryInFlight == handler \in {"logs", "spans"} /\ pc \in {"waiting", "done", "panic"}

QuerySucceeded(h) == pc = "done" /\ handler = h /\ result.Success

\* The limit a caller asks for: the supplied value capped at max, 100 when
\* absent or not positive.
RequestedLimit(arg, max) ==
    IF arg.t = "num" /\ arg.f.cls = "big" THEN max
    ELSE IF arg.t = "num" /\ arg.f.h > 0 THEN Min(Trunc(arg.f.h), max)
    ELSE 100

\* C1: a successful span query returns at most the effective limit of spans
\* (the caller's limit capped at 200, 100 by default), so at most 200,
\* whatever the upstream sent.
C1_SpansWithinLimit ==
    QuerySucceeded("spans") =>
        /\ Len(result.Data.records) <= RequestedLimit(args.limit, 200)
        /\ Len(result.Data.records) <= 200

\* C2: a successful log query returns exactly the first min(n, limit)
\* records of the n post-filtered records, limit being the caller's limit
\* capped at 500 (100 by default); so it returns at most 500.
C2_LogsPrefixUpToLimit ==
    QuerySucceeded("logs") =>
        /\ result.Data.records =
              SubSeq(filtered, 1, Min(Len(filtered), RequestedLimit(args.limit, 500)))
        /\ Len(result.Data.records) <= 500

C2_Witness ==
    /\ QuerySucceeded("logs")
    /\ Len(filtered) = 2
    /\ Len(result.Data.records) = 1
    /\ result.Data.records[1] = filtered[1]

\* The window of the request sent upstream and the one echoed in the
\* envelope both span exactly the given number of minutes.
WindowIs(minutes) ==
    /\ sent[1].TimeRange.To - sent[1].TimeRange.From = minutes * 60
    /\ (pc = "done" /\ result.Success) =>
          result.Data.query.time_range.to - result.Data.query.time_range.from = minutes * 60

\* C3: for both query handlers, a time_range_minutes above 1440 gives a
\* window of exactly 1440 minutes, sent upstream and echoed.
C3_WindowCappedAt1440 ==
    (/\ QueryInFlight
     /\ args.time_range_minutes.t = "num"
     /\ (args.time_range_minutes.f.cls = "big" \/ args.time_range_minutes.f.h > 2 * 1440))
    => WindowIs(1440)

\* C4: for both query handlers, a time_range_minutes that is absent, zero
\* or negative gives a window of exactly 60 minutes.
C4_DefaultWindow60 ==
    (/\ QueryInFlight
     /\ \/ args.time_range_minutes.t = "absent"
        \/ (args.time_range_minutes.t = "num" /\ ~FloatPositive(args.time_range_minutes.f)))
    => WindowIs(60)

C4_Witness ==
    /\ pc = "done"
    /\ handler \in {"logs", "spans"}
    /\ result.Success
    /\ args.time_range_minutes = NumArg(Fin(-2))
    /\ result.Data.query.time_range.from = FormatRFC3339(now) - 3600

\* The upstream attribute keys a query parameter can be translated to.
PushDownKeys ==
    {"service.name", "http.request.method", "http.response.status_code", "name",
     "status.code"}

\* The filter is the translation of one of the translatable parameters.
TranslatesAParameter(f) ==
    \/ f.Key = "service.name" /\ f.Value = [kind |-> "stringValue", v |-> args.service_name.s]
    \/ /\ handler = "spans"
       /\ \/ f.Key = "http.request.method"
             /\ f.Value = [kind |-> "stringValue", v |-> args.http_method.s]
          \/ f.Key = "http.response.status_code"
             /\ f.Value.kind = "intValue" /\ args.http_status_code.t = "num"
          \/ f.Key = "name" /\ f.Value = [kind |-> "stringValue", v |-> args.span_name.s]
          \/ f.Key = "status.code" /\ f.Value = [kind |-> "intValue", v |-> "2"]

\* C5: min_severity, body_contains and min_duration_ms never produce a
\* filter: every filter sent upstream is the translation of a translatable
\* parameter, no key occurs twice, and the envelope echoes that list.
C5_ClientSideParamsNotPushed ==
    QueryInFlight =>
        /\ \A i \in 1..Len(sent[1].Filter) :
              /\ sent[1].Filter[i].Key \in PushDownKeys
              /\ TranslatesAParameter(sent[1].Filter[i])
              /\ \A j \in 1..Len(sent[1].Filter) :
                    sent[1].Filter[i].Key = sent[1].Filter[j].Key => i = j
        /\ (pc = "done" /\ result.Success) => result.Data.query.filters = sent[1].Filter

C5_Witness ==
    /\ QuerySucceeded("logs")
    /\ args.min_severity = StrArg("ERROR")
    /\ args.body_contains = TextArg(<<"e", "R">>)
    /\ args.service_name = StrArg("cart")
    /\ Len(result.Data.query.filters) = 1

Count(b) == IF b THEN 1 ELSE 0

\* A parameter that is supplied and is not an empty string, not zero and
\* not false.
SuppliedNonZero(arg) ==
    /\ arg.t # "absent"
    /\ ~(arg.t = "str" /\ arg.s = "")
    /\ ~(arg.t = "num" /\ arg.f = Fin(0))
    /\ ~(arg.t = "bool" /\ ~arg.b)

\* C6 as stated: a span query sends (and echoes) as many filters as there
\* are translatable parameters supplied non-empty / non-zero; an empty
\* string, error_only=false and http_status_code=0 emit none.
C6_FilterPerNonZeroParameter ==
    (QueryInFlight /\ handler = "spans") =>
        Len(sent[1].Filter) =
            Count(SuppliedNonZero(args.service_name))
            + Count(SuppliedNonZero(args.http_method))
            + Count(SuppliedNonZero(args.http_status_code))
            + Count(SuppliedNonZero(args.span_name))
            + Count(SuppliedNonZero(args.error_only))

NonEmptyString(arg) == arg.t = "str" /\ arg.s # ""

\* C6 amended: a span query sends (and echoes) one filter for each of
\* service_name, http_method and span_name that is a non-empty string, one
\* for http_status_code whenever it is a number (0 included), and one for
\* error_only when it is the boolean true; any other value emits none.
C6_FilterPerUsableParameter ==
    (QueryInFlight /\ handler = "spans") =>
        /\ Len(sent[1].Filter) =
              Count(NonEmptyString(args.service_name))
              + Count(NonEmptyString(args.http_method))
              + Count(args.http_status_code.t = "num")
              + Count(NonEmptyString(args.span_name))
              + Count(args.error_only.t = "bool" /\ args.error_only.b)
        /\ (pc = "done" /\ result.Success) =>
              Len(result.Data.query.filters) = Len(sent[1].Filter)

C6_Witness ==
    /\ QuerySucceeded("spans")
    /\ args.http_status_code = NumArg(Fin(0))
    /\ args.http_method = StrArg("")
    /\ args.error_only = BoolArg(FALSE)
    /\ args.service_name = StrArg("cart")
    /\ result.Data.query.filters =
          <<StringFilter("service.name", "cart"),
            IntFilter("http.response.status_code", "0")>>

\* The rank the claim gives to each severity level.
LevelRank(level) ==
    CASE level = "TRACE" -> 1
      [] level = "DEBUG" -> 5
      [] level = "INFO" -> 9
      [] level = "WARN" -> 13
      [] level = "ERROR" -> 17
      [] level = "FATAL" -> 21

LevelNames == {"TRACE", "DEBUG", "INFO", "WARN", "ERROR", "FATAL"}

BodyFilterOff == args.body_contains.t # "str" \/ args.body_contains.s = <<>>

\* C7: with min_severity one of the six levels, the severity post-filter
\* keeps exactly the flattened records whose severityNumber is at least the
\* level's rank, in their order.
C7_SeverityKeepsAtLeastRank ==
    (/\ QuerySucceeded("logs")
     /\ args.min_severity.t = "str"
     /\ args.min_severity.s \in LevelNames)
    => /\ \A i \in 1..Len(filtered) :
             filtered[i].SeverityNumber >= LevelRank(args.min_severity.s)
       /\ BodyFilterOff =>
             filtered = SelectSeq(flat,
                 LAMBDA r : r.SeverityNumber >= LevelRank(args.min_severity.s))

C7_Witness ==
    /\ QuerySucceeded("logs")
    /\ args.min_severity = StrArg("ERROR")
    /\ BodyFilterOff
    /\ Len(flat) = 2
    /\ flat[1].SeverityNumber = 9
    /\ flat[2].SeverityNumber = 17
    /\ filtered = <<flat[2]>>

\* C8: with a positive min_duration_ms, the duration post-filter keeps
\* exactly the flattened spans whose durationMs is at least the threshold.
C8_DurationKeepsAtLeastThreshold ==
    (/\ QuerySucceeded("spans")
     /\ args.min_duration_ms.t = "num"
     /\ FloatPositive(args.min_duration_ms.f))
    => filtered = SelectSeq(flat,
           LAMBDA r : /\ args.min_duration_ms.f.cls = "fin"
                      /\ 2 * r.DurationMs.num >=
                            args.min_duration_ms.f.h * r.DurationMs.den)

\* The spans of 50 ms and 200 ms with min_duration_ms = 100.
C8_Witness ==
    /\ QuerySucceeded("spans")
    /\ args.min_duration_ms = NumArg(Fin(200))
    /\ Len(flat) = 3
    /\ flat[1].DurationMs = Ratio(50000000, 1000000)
    /\ flat[2].DurationMs = Ratio(200000000, 1000000)
    /\ filtered = <<flat[2]>>

\* The body the client decoded for an error result, when it is an object.
ErrorWithObjectBody == pc = "done" /\ result.Error.set /\ result.Data.t = "obj"

IsStr(leaf) == leaf.t = "str"

\* The detail or else the message of an object, when one of them is a string.
HasNested(ev) == IsStr(ev.detail) \/ IsStr(ev.message)

Nested(ev) == IF IsStr(ev.detail) THEN ev.detail.s ELSE ev.message.s

\* C9 as stated: the detail is the first match in the order: `detail`
\* string, `message` string, `error` (string, or object checked for detail
\* then message), `errors` (first element a string, or an object checked
\* for detail then message).
StatedDetail(m) ==
    CASE m.detail.t = "str" -> m.detail.s
      [] m.message.t = "str" -> m.message.s
      [] m.error.t = "str" -> m.error.s
      [] m.error.t = "obj" /\ HasNested(m.error) -> Nested(m.error)
      [] m.errors.t = "arr" /\ m.errors.el = "str" -> m.errors.s
      [] m.errors.t = "arr" /\ m.errors.el = "obj" /\ HasNested(m.errors) -> Nested(m.errors)
      [] OTHER -> ""

C9_DetailFirstOrder ==
    ErrorWithObjectBody => result.Error.Detail = StatedDetail(result.Data.err)

\* What one key yields: a string itself, the detail or else message of an
\* object, the first element of an array (a string, or an object's detail
\* or else message).
Yields(ev) ==
    \/ ev.t = "str"
    \/ ev.t = "obj" /\ HasNested(ev)
    \/ ev.t = "arr" /\ ev.el = "str"
    \/ ev.t = "arr" /\ ev.el = "obj" /\ HasNested(ev)

Yield(ev) == IF ev.t = "str" \/ (ev.t = "arr" /\ ev.el = "str") THEN ev.s ELSE Nested(ev)

\* C9 amended: the detail is the first match in the order error, message,
\* detail, errors, where under any of the four keys a string, an object
\* (detail then message) or an array (first element a string, or an object
\* checked for detail then message) matches; a body
\* {"errors":[{"detail":D}]} yields D.
C9_ErrorFirstOrder ==
    ErrorWithObjectBody =>
        LET m == result.Data.err IN
        result.Error.Detail =
            CASE Yields(m.error) -> Yield(m.error)
              [] Yields(m.message) -> Yield(m.message)
              [] Yields(m.detail) -> Yield(m.detail)
              [] Yields(m.errors) -> Yield(m.errors)
              [] OTHER -> ""

\* A body carrying error, message and detail strings at once.
C9_Witness ==
    /\ ErrorWithObjectBody
    /\ result.Data.err.detail = EVStr("detail")
    /\ result.Data.err.message = EVStr("message")
    /\ result.Data.err.error = EVStr("error")
    /\ result.Error.Detail = "error"

ResponseArrived == pc = "done" /\ Len(received) = 1 /\ received[1].net = "ok"

\* C10 as stated: every response with a status outside 200-299 yields an
\* error result carrying that status, and only 2xx responses yield success.
C10_ErrorOutside2xx ==
    ResponseArrived =>
        IF received[1].status \in 200..299
        THEN TRUE
        ELSE /\ ~result.Success
             /\ result.Error.set
             /\ result.Error.StatusCode = received[1].status

\* C10 amended: every response with a status of 400 or above yields an
\* error result (Success=false, Error set) carrying that status, also when
\* no detail can be extracted; every response with a status below 400, not
\* only a 2xx one, yields a success result.
C10_ErrorFrom400 ==
    ResponseArrived =>
        IF received[1].status >= 400
        THEN /\ ~result.Success
             /\ result.Error.set
             /\ result.Error.StatusCode = received[1].status
        ELSE result.Success /\ ~result.Error.set

\* A 404 whose body holds none of the keys: no detail, status kept.
C10_Witness ==
    /\ ResponseArrived
    /\ received[1].status = 404
    /\ received[1].body.err = NoErrKeys
    /\ ~result.Success
    /\ result.Error.StatusCode = 404
    /\ result.Error.Detail = ""

\* The round trip of the query failed: no response, an unreadable body, or
\* an error status.
UpstreamFailed ==
    /\ pc = "done"
    /\ handler \in {"logs", "spans"}
    /\ Len(received) = 1
    /\ (received[1].net # "ok" \/ received[1].status >= 400)

\* C11: when the round trip of a log or span query fails, the handler
\* returns the client's error result unchanged, with no envelope, and
\* nothing is flattened or filtered; every call that returns ends in
\* exactly one of an envelope and an error.
C11_FailureReturnsErrorOnly ==
    /\ UpstreamFailed =>
          /\ result = Request(received[1])
          /\ ~result.Success
          /\ result.Error.set
          /\ result.Data.t # "envelope"
          /\ flat = <<>>
          /\ filtered = <<>>
    /\ (pc = "done" /\ handler \in {"logs", "spans"}) =>
          (result.Success /\ ~result.Error.set /\ result.Data.t = "envelope")
          # (~result.Success /\ result.Error.set /\ result.Data.t # "envelope")

\* A 500 answered with a payload that could have been flattened.
C11_Witness ==
    /\ UpstreamFailed
    /\ received[1].status = 500
    /\ received[1].body.payload.groups # <<>>
    /\ result.Error.StatusCode = 500
    /\ flat = <<>>

\* A response arrived whose body is not JSON.
NonJSONAnswer ==
    /\ pc = "done"
    /\ Len(received) = 1
    /\ received[1].net = "ok"
    /\ received[1].body.raw = "nonjson"

Flattened ==
    /\ handler \in {"logs", "spans"}
    /\ pc \in {"done", "panic"}
    /\ Len(received) = 1
    /\ received[1].net = "ok"
    /\ received[1].status < 400

\* The key under which the handler looks for resource groups.
GroupsKey == IF handler = "logs" THEN "resourceLogs" ELSE "resourceSpans"

WellFormedGroups(groups) ==
    {g \in 1..Len(groups) : groups[g].t = "obj" /\ groups[g].scopes.t = "arr"}

WellFormedScopes(group) ==
    {sc \in 1..Len(group.scopes.items) :
        group.scopes.items[sc].t = "obj" /\ group.scopes.items[sc].leaves.t = "arr"}

WellFormedLeaves(scope) ==
    {l \in 1..Len(scope.leaves.items) : scope.leaves.items[l].t = "obj"}

\* The places <<group, scope, leaf>> of the payload where a leaf object sits
\* in a leaf list of a scope object of a scope list of a group object.
LeafPlaces(payload) ==
    IF payload.key # GroupsKey \/ payload.t # "arr" THEN {}
    ELSE UNION {UNION {{<<g, sc, l>> :
                           l \in WellFormedLeaves(payload.groups[g].scopes.items[sc])} :
                       sc \in WellFormedScopes(payload.groups[g])} :
                g \in WellFormedGroups(payload.groups)}

\* C13: flattening does not fail on shape anomalies.  The payload yields one
\* record per leaf object reachable through well-formed groups: a missing,
\* empty or wrongly typed resource list, resource group, scope list, scope
\* group, leaf list or leaf contributes none and takes none away from its
\* siblings, and the query still succeeds.
C13_AnomaliesContributeNothing ==
    Flattened =>
        /\ Len(flat) = Cardinality(LeafPlaces(received[1].body.payload))
        /\ pc = "done" => result.Success /\ result.Data.t = "envelope"

\* A scope list holding a non-object, two scope groups without a usable
\* leaf list, an empty one and two with a record each, one of them beside
\* a leaf that is not an object.
C13_Witness ==
    /\ Flattened
    /\ pc = "done"
    /\ Len(received[1].body.payload.groups) = 1
    /\ received[1].body.payload.groups[1].scopes.t = "arr"
    /\ Len(received[1].body.payload.groups[1].scopes.items) = 6
    /\ received[1].body.payload.groups[1].scopes.items[1] = NotAScope
    /\ Len(flat) = 2
    /\ result.Success

AloneResults(c) ==
    IF c.handler = "logs"
    THEN {LogsOutcome(c.args, TimeAdd(c.now, NegDuration(m)), c.now, LogsFilters(c.args), l,
                      c.received[1]).result :
             m \in LogsMinutes(c.args.time_range_minutes), l \in LogsLimit(c.args.limit)}
    ELSE {SpansOutcome(c.args, TimeAdd(c.now, NegDuration(m)), c.now,
                       SpansFilters(c.args, code), l, c.received[1]).result :
             m \in SpansMinutes(c.args.time_range_minutes), l \in SpansLimit(c.args.limit),
             code \in StatusCodeInts(c.args.http_status_code)}

\* The requests the handler can send when it runs alone.
AloneRequests(c) ==
    IF c.handler = "logs"
    THEN {Post(QueryRequest("/api/logs", TimeAdd(c.now, NegDuration(m)), c.now,
                            LogsFilters(c.args), LogsPageSize(l))) :
             m \in LogsMinutes(c.args.time_range_minutes), l \in LogsLimit(c.args.limit)}
    ELSE {Post(QueryRequest("/api/spans", TimeAdd(c.now, NegDuration(m)), c.now,
                            SpansFilters(c.args, code), SpansPageSize(l))) :
             m \in SpansMinutes(c.args.time_range_minutes), l \in SpansLimit(c.args.limit),
             code \in StatusCodeInts(c.args.http_status_code)}

\* C15: invocations running at the same time do not interfere: in every
\* interleaving, the request an invocation sends and the result it returns
\* are those of the same handler run alone with the same arguments, clock
\* reading and upstream response.
C15_InvocationsDoNotInterfere ==
    \A p \in Invocations :
        /\ calls[p].pc \in {"waiting", "done"} => calls[p].sent \in AloneRequests(calls[p])
        /\ calls[p].pc = "done" => calls[p].result \in AloneResults(calls[p])

\* One invocation has returned its envelope while another, given other
\* arguments and another handler, is still waiting for its response.
C15_Witness ==
    /\ calls[1].pc = "done"
    /\ calls[1].handler = "logs"
    /\ calls[1].result.Success
    /\ calls[1].result.Data.query.filters = <<StringFilter("service.name", "cart")>>
    /\ calls[2].pc = "waiting"
    /\ calls[2].handler = "spans"
    /\ frames[2].filters # frames[1].filters

\* C16: Registry.Call runs the handler registered under the name if and
\* only if the name is registered and enabled (filter nil, or the name
\* mapped to true), and then returns that handler's result; for a name
\* that is not registered it returns a 404 error, also when the filter
\* lists the name; for a registered name that is not enabled it returns a
\* 403 error; in both cases it runs no handler.
C16_CallRunsEnabledRegisteredOnly ==
    [][called' # called =>
          LET name == called'.name
              isRegistered == name \in DOMAIN tools
              isEnabled == enabled.nil \/ (name \in DOMAIN enabled.m /\ enabled.m[name])
          IN  /\ (called'.ran # <<>>) <=> (isRegistered /\ isEnabled)
              /\ (isRegistered /\ isEnabled) =>
                    /\ called'.ran = <<tools[name]>>
                    /\ called'.result = HandlerResult(tools[name])
              /\ ~isRegistered =>
                    /\ ~called'.result.Success
                    /\ called'.result.Error.set
                    /\ called'.result.Error.StatusCode = 404
              /\ (isRegistered /\ ~isEnabled) =>
                    /\ ~called'.result.Success
                    /\ called'.result.Error.set
                    /\ called'.result.Error.StatusCode = 403]_vars

\* A name the filter maps to true but that was never registered, called
\* after other tools were registered: 404, no handler run.
C16_Witness ==
    /\ called.name = "dash0_other"
    /\ "dash0_other" \notin DOMAIN tools
    /\ DOMAIN tools # {}
    /\ ~enabled.nil
    /\ Lookup(enabled.m, "dash0_other")
    /\ called.result.Error.StatusCode = 404
    /\ called.ran = <<>>

\* C17: an invocation of the log or span query handler issues exactly one
\* request upstream (a POST to its own path), before anything is
\* flattened, and no second one, whatever response the first one gets.
C17_OneRequestPerInvocation ==
    QueryInFlight =>
        /\ Len(sent) = 1
        /\ sent[1].method = "POST"
        /\ sent[1].path = (IF handler = "logs" THEN "/api/logs" ELSE "/api/spans")
        /\ Len(received) <= 1
        /\ pc = "waiting" =>
              /\ received = <<>>
              /\ flat = <<>>
              /\ filtered = <<>>
              /\ result = NoResult
        /\ pc \in {"done", "panic"} => Len(received) = 1

\* The round trip failed and the invocation is over: still one request.
C17_Witness ==
    /\ pc = "done"
    /\ handler = "spans"
    /\ received[1].net = "fail"
    /\ ~result.Success
    /\ Len(sent) = 1

\* Every filter sent upstream carries the operator op, and error_only=true
\* emits the filter status.code op intValue "2".
FiltersCarry(op) ==
    QueryInFlight =>
        /\ \A i \in 1..Len(sent[1].Filter) : sent[1].Filter[i].Operator = op
        /\ (handler = "spans" /\ args.error_only = BoolArg(TRUE)) =>
              \E i \in 1..Len(sent[1].Filter) :
                  sent[1].Filter[i] =
                      [Key |-> "status.code", Operator |-> op,
                       Value |-> [kind |-> "intValue", v |-> "2"]]

\* C18 as stated: every push-down filter of the log and span query
\* handlers carries the operator equals; error_only=true emits status.code
\* equals 2, the 2 encoded as the decimal string "2".
C18_OperatorEquals == FiltersCarry("equals")

\* C18 amended: every push-down filter of the log and span query handlers
\* carries the operator is; error_only=true emits key status.code,
\* operator is, intValue "2".
C18_OperatorIs == FiltersCarry("is")

C18_Witness ==
    /\ QueryInFlight
    /\ handler = "spans"
    /\ args.error_only = BoolArg(TRUE)
    /\ args.service_name = StrArg("cart")
    /\ Len(sent[1].Filter) = 2
    /\ sent[1].Filter[1].Operator = "is"
    /\ sent[1].Filter[2] = IntFilter("status.code", "2")

\* Place a comes before place b in resource-then-scope-then-leaf order.
PlaceBefore(a, b) ==
    \/ a[1] < b[1]
    \/ a[1] = b[1] /\ a[2] < b[2]
    \/ a[1] = b[1] /\ a[2] = b[2] /\ a[3] < b[3]

\* The position, among the leaf objects of the payload, of the one at pl.
RankOf(pl, places) == Cardinality({q \in places : PlaceBefore(q, pl)}) + 1

\* The attribute entries of a resource group, none if there is no list.
AttrsOf(group) ==
    IF group.resource.t = "obj" /\ group.resource.attributes.t = "arr"
    THEN group.resource.attributes.items ELSE <<>>

HasServiceKey(attr) == attr.t = "obj" /\ attr.key = StrLeaf("service.name")

HasServiceString(attr) ==
    HasServiceKey(attr) /\ attr.value.t = "obj" /\ attr.value.stringValue.t = "str"

\* The service name as C19 states it: that of the first entry with the key
\* service.name (its string value, or nothing when it has none); the empty
\* string when no entry has the key.
StatedServiceName(group) ==
    LET attrs == AttrsOf(group)
        keyed == {i \in 1..Len(attrs) : HasServiceKey(attrs[i])}
    IN  IF keyed = {} THEN ""
        ELSE LET first == CHOOSE i \in keyed : \A j \in keyed : i <= j IN
             IF HasServiceString(attrs[first]) THEN attrs[first].value.stringValue.s ELSE ""

\* The service name of the first entry that has the key service.name and a
\* string value; the empty string when there is none.
FirstStringServiceName(group) ==
    LET attrs == AttrsOf(group)
        usable == {i \in 1..Len(attrs) : HasServiceString(attrs[i])}
    IN  IF usable = {} THEN ""
        ELSE attrs[CHOOSE i \in usable : \A j \in usable : i <= j].value.stringValue.s

\* Every record carries the service name that rule gives for its group.
ServiceNamesAre(rule(_)) ==
    Flattened =>
        LET payload == received[1].body.payload
            places == LeafPlaces(payload)
        IN  \A pl \in places :
                flat[RankOf(pl, places)].ServiceName = rule(payload.groups[pl[1]])

\* C19 as stated: the service name of a resource group is determined by
\* the first attribute entry whose key is exactly service.name; the scan
\* stops there and later entries never influence the result; with no such
\* entry the service name is empty.
C19_FirstKeyDecides == ServiceNamesAre(StatedServiceName)

\* C19 amended: the service name of a resource group is the string value
\* of the first attribute entry that has the key service.name and a string
\* value: an entry with that key but without a string value is passed over
\* and a later entry can still give the name; entries after the one taken
\* never influence the result; with no such entry the name is empty.
C19_FirstStringValueDecides == ServiceNamesAre(FirstStringServiceName)

\* service.name first with a value that is no string, then with "pay".
C19_Witness ==
    /\ Flattened
    /\ Len(received[1].body.payload.groups) = 1
    /\ AttrsOf(received[1].body.payload.groups[1]) =
          <<Attr("service.name", OtherLeaf), Attr("service.name", StrLeaf("pay"))>>
    /\ Len(flat) = 1
    /\ flat[1].ServiceName = "pay"

\* The leaf object at a place of the payload.
LeafAt(payload, pl) == payload.groups[pl[1]].scopes.items[pl[2]].leaves.items[pl[3]]

\* C20: the flattened sequence has one record per leaf, in
\* resource-then-scope-then-leaf order of the payload, and each record
\* carries the service name of its own resource group, whichever scope
\* group of that resource the leaf came from.
C20_OrderAndOwnServiceName ==
    Flattened =>
        LET payload == received[1].body.payload
            places == LeafPlaces(payload)
        IN  /\ DOMAIN flat = 1..Cardinality(places)
            /\ \A pl \in places :
                  flat[RankOf(pl, places)] =
                      IF handler = "logs"
                      THEN FlatLogOf(LeafAt(payload, pl),
                                     extractServiceName(payload.groups[pl[1]]))
                      ELSE FlatSpanOf(LeafAt(payload, pl),
                                      extractServiceName(payload.groups[pl[1]]))

\* Two scope groups under the resource "cart", then a resource without a
\* service name.
C20_Witness ==
    /\ Flattened
    /\ handler = "logs"
    /\ Len(received[1].body.payload.groups) = 2
    /\ Len(received[1].body.payload.groups[1].scopes.items) = 2
    /\ Len(flat) = 3
    /\ flat[1].ServiceName = "cart" /\ flat[1].SeverityNumber = 17
    /\ flat[2].ServiceName = "cart" /\ flat[2].SeverityNumber = 9
    /\ flat[3].ServiceName = "" /\ flat[3].SeverityNumber = 21

\* The pairs <<leaf, record>> of a flattened payload: each leaf object with
\* the flat record made from it.
LeafRecords ==
    IF ~Flattened THEN {}
    ELSE LET payload == received[1].body.payload
             places == LeafPlaces(payload)
         IN  {<<LeafAt(payload, pl), flat[RankOf(pl, places)]>> : pl \in places}

\* The attribute entries of a leaf that are objects with a string key and
\* an object value.
KeyedEntries(leaf) ==
    IF leaf.attributes.t # "arr" THEN {}
    ELSE {i \in 1..Len(leaf.attributes.items) :
            /\ leaf.attributes.items[i].t = "obj"
            /\ leaf.attributes.items[i].key.t = "str"
            /\ leaf.attributes.items[i].value.t = "obj"}

\* The first variant present in a value, in the order string, integer,
\* boolean; a variant is present when it has the JSON type of its encoding.
FirstVariant(value) ==
    IF value.stringValue.t = "str" THEN "string"
    ELSE IF value.intValue.t = "str" THEN "int"
    ELSE IF value.boolValue.t = "bool" THEN "bool"
    ELSE "none"

\* v is what the first variant present in the value stands for.
StandsFor(v, value) ==
    /\ v.kind = FirstVariant(value)
    /\ v.kind = "string" => v.s = value.stringValue.s
    /\ v.kind = "int" => ParseInt(value.intValue.s).ok /\ v.i = ParseInt(value.intValue.s).v
    /\ v.kind = "bool" => v.b = value.boolValue.b

\* C21: every retained attribute holds what the first variant present in an
\* entry with its key stands for, the variants taken in the order
\* stringValue, intValue (parsed from decimal text), boolValue; a later
\* variant of the same entry is never the one retained.
C21_FirstVariantWins ==
    \A lr \in LeafRecords :
        \A k \in DOMAIN lr[2].Attributes :
            \E i \in KeyedEntries(lr[1]) :
                /\ lr[1].attributes.items[i].key.s = k
                /\ StandsFor(lr[2].Attributes[k], lr[1].attributes.items[i].value)

\* A log record whose attribute holds stringValue, intValue and boolValue
\* and yields the string, and one whose attribute holds intValue and
\* boolValue and yields the integer.
C21_Witness ==
    /\ Flattened
    /\ handler = "logs"
    /\ \E lr \in LeafRecords :
          /\ lr[1].attributes = Arr(AttrLists[1])
          /\ lr[2].Attributes["http.route"] = AttrString("/a")
    /\ \E lr \in LeafRecords :
          /\ lr[1].attributes = Arr(AttrLists[2])
          /\ lr[2].Attributes["db.system"] = AttrInt(7)
          /\ lr[2].Attributes["thread.id"] = AttrInt(-4)

\* The keys the span query is stated to retain.
StatedAllowList ==
    {"http.request.method", "http.response.status_code", "http.route", "http.url",
     "http.target", "db.system", "db.statement", "rpc.method", "rpc.service",
     "messaging.system", "messaging.operation", "error.type", "exception.type",
     "exception.message"}

\* C22: the attribute keys of every flat span record lie in the fixed
\* allow-list; any other attribute key of the span is dropped.
C22_SpanKeysWithinAllowList ==
    handler = "spans" =>
        \A lr \in LeafRecords : DOMAIN lr[2].Attributes \subseteq StatedAllowList

\* A span with the attributes http.route and http.user_agent, both with a
\* string value: the record keeps http.route alone.
C22_Witness ==
    /\ Flattened
    /\ handler = "spans"
    /\ \E lr \in LeafRecords :
          /\ lr[1].attributes = Arr(AttrLists[1])
          /\ DOMAIN lr[2].Attributes = {"http.route"}
    /\ \E lr \in LeafRecords :
          /\ lr[1].attributes = Arr(AttrLists[2])
          /\ DOMAIN lr[2].Attributes = {"db.system"}

\* The first variant present in the value stands for a string, an integer
\* or a boolean.
Resolvable(value) ==
    \/ FirstVariant(value) \in {"string", "bool"}
    \/ FirstVariant(value) = "int" /\ ParseInt(value.intValue.s).ok

\* The attribute keys of a log record are the keys of the entries of its
\* leaf that satisfy keep.
LogKeysAre(keep(_)) ==
    handler = "logs" =>
        \A lr \in LeafRecords :
            DOMAIN lr[2].Attributes =
                {lr[1].attributes.items[i].key.s :
                    i \in {j \in 1..Len(lr[1].attributes.items) : keep(lr[1].attributes.items[j])}}

HasStringKey(entry) == entry.t = "obj" /\ entry.key.t = "str"

HasResolvableValue(entry) ==
    HasStringKey(entry) /\ entry.value.t = "obj" /\ Resolvable(entry.value)

\* C23 as stated: every attribute entry of a log leaf that has a string key
\* appears as a key of the flat record's attributes.
C23_EveryStringKeyRetained == LogKeysAre(HasStringKey)

\* C23: every attribute entry of a log leaf that has a string key and a
\* value resolving to a string, an integer or a boolean appears as a key of
\* the flat record's attributes, whatever the key: no allow-list is
\* applied.  An entry whose value is no object, holds none of the three
\* variants, or holds an intValue that does not parse, is left out.
C23_EveryResolvableKeyRetained == LogKeysAre(HasResolvableValue)

\* Log records that keep keys outside the span allow-list, and one whose
\* only entry has a string key and no value that resolves.
C23_Witness ==
    /\ Flattened
    /\ handler = "logs"
    /\ \E lr \in LeafRecords :
          /\ lr[1].attributes = Arr(AttrLists[1])
          /\ DOMAIN lr[2].Attributes = {"http.route", "http.user_agent"}
    /\ \E lr \in LeafRecords :
          /\ lr[1].attributes = Arr(AttrLists[3])
          /\ lr[2].Attributes["retry"] = AttrBool(FALSE)
    /\ \E lr \in LeafRecords :
          /\ lr[1].attributes = Arr(AttrLists[10])
          /\ DOMAIN lr[2].Attributes = {}

\* The integer a field of a leaf encodes as decimal text, if it does.
DecimalField(field) ==
    IF field.t = "str" THEN ParseInt(field.s) ELSE [ok |-> FALSE, v |-> 0]

\* C24: a span whose startTimeUnixNano and endTimeUnixNano are both decimal
\* texts of integers has durationMs = (endNano - startNano) / 1000000 and
\* its start and end times set from them; a span in which either is
\* missing, of the wrong type or unparseable still yields a record, with
\* durationMs = 0 and empty start and end.
C24_DurationFromBothTimes ==
    handler = "spans" =>
        \A lr \in LeafRecords :
            LET st == DecimalField(lr[1].startTimeUnixNano)
                en == DecimalField(lr[1].endTimeUnixNano)
            IN  IF st.ok /\ en.ok
                THEN /\ lr[2].DurationMs = [num |-> en.v - st.v, den |-> 1000000]
                     /\ lr[2].StartTime = [empty |-> FALSE, nanos |-> st.v]
                     /\ lr[2].EndTime = [empty |-> FALSE, nanos |-> en.v]
                ELSE /\ lr[2].DurationMs.num = 0
                     /\ lr[2].StartTime.empty
                     /\ lr[2].EndTime.empty

\* A payload with a span from 50 ms to 200 ms, one whose end does not
\* parse and one without an end: 150 ms for the first, zero and empty
\* times for the others.
C24_Witness ==
    /\ Flattened
    /\ handler = "spans"
    /\ \E lr \in LeafRecords :
          /\ lr[1] = SpanLeaf(TextArg(Ms50), TextArg(Ms200))
          /\ lr[2].DurationMs = Ratio(150000000, 1000000)
          /\ ~lr[2].StartTime.empty
    /\ \E lr \in LeafRecords :
          /\ lr[1] = SpanLeaf(TextArg(Ms50), TextArg(<<"x">>))
          /\ lr[2].DurationMs.num = 0 /\ lr[2].StartTime.empty
    /\ \E lr \in LeafRecords :
          /\ lr[1] = SpanLeaf(TextArg(Ms50), Absent)
          /\ lr[2].DurationMs.num = 0 /\ lr[2].EndTime.empty

\* The timestamp a field of a log leaf provides: the instant its decimal
\* text counts in nanoseconds, or none.
Usable(field) == DecimalField(field).ok

InstantOf(field) == [empty |-> FALSE, nanos |-> DecimalField(field).v]

\* The timestamps of log records follow the rule: from timeUnixNano unless
\* fallback holds of the leaf, then from observedTimeUnixNano; empty when
\* the field chosen provides none.
TimestampsFallBackWhen(fallback(_)) ==
    handler = "logs" =>
        \A lr \in LeafRecords :
            LET field == IF fallback(lr[1]) THEN lr[1].observedTimeUnixNano
                         ELSE lr[1].timeUnixNano
            IN  lr[2].Timestamp = IF Usable(field) THEN InstantOf(field)
                                  ELSE [empty |-> TRUE, nanos |-> 0]

TimeNotUsable(leaf) == ~Usable(leaf.timeUnixNano)

TimeNotAString(leaf) == leaf.timeUnixNano.t # "str"

\* C25 as stated: the timestamp is taken from observedTimeUnixNano whenever
\* timeUnixNano is absent, not a string or not parseable.
C25_FallbackWheneverUnusable == TimestampsFallBackWhen(TimeNotUsable)

\* C25: the timestamp of a log record is taken from timeUnixNano when that
\* field is a string, and is then empty if the string does not parse as an
\* integer; it is taken from observedTimeUnixNano only when timeUnixNano is
\* absent or not a string, and is then empty if observedTimeUnixNano is
\* absent, not a string or does not parse.
C25_FallbackWhenNotAString == TimestampsFallBackWhen(TimeNotAString)

\* Log leaves with observedTimeUnixNano = 100 ms: without timeUnixNano and
\* with a numeric one the record carries 100 ms, with timeUnixNano = "x" it
\* carries no timestamp, with timeUnixNano = 50 ms it carries 50 ms.
C25_Witness ==
    /\ Flattened
    /\ handler = "logs"
    /\ \E lr \in LeafRecords :
          /\ lr[1].timeUnixNano = AbsentText /\ lr[1].observedTimeUnixNano = TextArg(Ms100)
          /\ lr[2].Timestamp = FormatNanos(100000000)
    /\ \E lr \in LeafRecords :
          /\ lr[1].timeUnixNano = NumArg(Fin(2)) /\ lr[1].observedTimeUnixNano = TextArg(Ms100)
          /\ lr[2].Timestamp = FormatNanos(100000000)
    /\ \E lr \in LeafRecords :
          /\ lr[1].timeUnixNano = TextArg(<<"x">>) /\ lr[1].observedTimeUnixNano = TextArg(Ms100)
          /\ lr[2].Timestamp.empty
    /\ \E lr \in LeafRecords :
          /\ lr[1].timeUnixNano = TextArg(Ms50) /\ lr[1].observedTimeUnixNano = TextArg(Ms100)
          /\ lr[2].Timestamp = FormatNanos(50000000)

\* C26: the page size asked of the upstream is exactly twice the effective
\* limit for a log query, so at most 1000, and exactly the effective limit
\* for a span query, so at most 200, for every limit the caller supplies
\* (the effective limit being the caller's limit capped at 500 for logs and
\* at 200 for spans, 100 by default).
C26_PageSizeFromLimit ==
    Len(sent) = 1 /\ handler \in {"logs", "spans"} =>
        IF handler = "logs"
        THEN /\ sent[1].Pagination = GoI(2 * RequestedLimit(args.limit, 500))
             /\ sent[1].Pagination.v <= 1000
        ELSE /\ sent[1].Pagination = GoI(RequestedLimit(args.limit, 200))
             /\ sent[1].Pagination.v <= 200

\* sub[i..] is found in whole[j..] at ascending positions, each element of
\* sub equal to the element of whole at its position.
RECURSIVE EmbedsFrom(_, _, _, _)
EmbedsFrom(sub, i, whole, j) ==
    IF i > Len(sub) THEN TRUE
    ELSE IF j > Len(whole) THEN FALSE
    ELSE IF sub[i] = whole[j] THEN EmbedsFrom(sub, i + 1, whole, j + 1)
    ELSE EmbedsFrom(sub, i, whole, j + 1)

IsSubsequence(sub, whole) == EmbedsFrom(sub, 1, whole, 1)

\* C27: whatever the post-filters (severity, then body substring for logs;
\* duration for spans) and the limit, the records of the envelope are a
\* subsequence of the flattened sequence: each is a flattened record,
\* unaltered, and they stand in the order of the flattened sequence, none
\* taken twice.
C27_RecordsAreSubsequence ==
    (QuerySucceeded("logs") \/ QuerySucceeded("spans")) =>
        IsSubsequence(result.Data.records, flat)

\* Two log records flattened; with the severity filter, the body filter and
\* a limit of 1 the envelope holds the second one alone.
C27_Witness ==
    /\ QuerySucceeded("logs")
    /\ args.min_severity = StrArg("ERROR")
    /\ args.body_contains = TextArg(<<"e", "R">>)
    /\ args.limit = NumArg(Fin(2))
    /\ Len(flat) = 2
    /\ flat[1] # flat[2]
    /\ result.Data.records = <<flat[2]>>

\* Two characters are the same letter, case left aside.
SameLetter(a, b) ==
    \/ a = b
    \/ {a, b} = {"E", "e"}
    \/ {a, b} = {"R", "r"}

\* sub occurs in cs at some position, letter by letter, case left aside.
ContainsIgnoringCase(cs, sub) ==
    \E i \in 0..(Len(cs) - Len(sub)) :
        \A k \in 1..Len(sub) : SameLetter(cs[i + k], sub[k])

SeverityFilterOff == args.min_severity.t # "str" \/ args.min_severity.s = ""

\* C28: with a non-empty body_contains, the body post-filter keeps exactly
\* the log records whose body contains the value, both compared without
\* regard to case: every record kept contains it, and with no severity
\* filter the records kept are all the flattened records that contain it.
C28_BodyContainsIgnoringCase ==
    (/\ QuerySucceeded("logs")
     /\ args.body_contains.t = "str"
     /\ args.body_contains.s # <<>>)
    => /\ \A i \in 1..Len(filtered) :
             ContainsIgnoringCase(filtered[i].Body, args.body_contains.s)
       /\ SeverityFilterOff =>
             filtered = SelectSeq(flat,
                 LAMBDA r : ContainsIgnoringCase(r.Body, args.body_contains.s))

\* body_contains = "eR" with the bodies "ok" and "Er": the second record is
\* kept although its case differs in both letters, the first is dropped.
C28_Witness ==
    /\ QuerySucceeded("logs")
    /\ args.body_contains = TextArg(<<"e", "R">>)
    /\ SeverityFilterOff
    /\ Len(flat) = 2
    /\ flat[1].Body = <<"o", "k">>
    /\ flat[2].Body = <<"E", "r">>
    /\ filtered = <<flat[2]>>

\* The registered tools that are enabled: every registered name when the
\* filter is nil, else the registered names the filter maps to true.
EnabledRegistered ==
    {name \in DOMAIN tools : enabled.nil \/ (name \in DOMAIN enabled.m /\ enabled.m[name])}

\* Name a comes before name b in ascending order.
NameBefore(a, b) ==
    <<a, b>> \in {<<"dash0_logs_query", "dash0_other">>,
                  <<"dash0_logs_query", "dash0_spans_query">>,
                  <<"dash0_other", "dash0_spans_query">>}

\* The names are exactly those of the set, each once, ascending.
ListsAscending(names, S) ==
    /\ {names[i] : i \in 1..Len(names)} = S
    /\ \A i, j \in 1..Len(names) : i < j => NameBefore(names[i], names[j])

\* C29: whatever was registered so far, re-registrations included,
\* GetEnabledTools returns exactly the registered tools that are enabled
\* (all of them under a nil filter), each once and as last registered, in
\* ascending order of name; EnabledCount is the length of that list and
\* EnabledToolNames lists the same names in the same order; a name the
\* filter holds but that was never registered is in none of them.
C29_ListingIsEnabledRegisteredSorted ==
    [][listed' # listed =>
          /\ listed'.op = "GetEnabledTools" =>
                /\ ListsAscending([i \in 1..Len(listed'.tools) |-> listed'.tools[i].Name],
                                  EnabledRegistered)
                /\ \A i \in 1..Len(listed'.tools) :
                      listed'.tools[i].def = tools[listed'.tools[i].Name]
                /\ Len(listed'.tools) = EnabledCount(tools, enabled)
                /\ Len(listed'.tools) = Len(EnabledToolNames(tools, enabled))
          /\ listed'.op = "EnabledCount" =>
                listed'.count = Cardinality(EnabledRegistered)
          /\ listed'.op = "EnabledToolNames" =>
                ListsAscending(listed'.names, EnabledRegistered)]_vars

\* A registry whose filter enables dash0_other and dash0_spans_query, with
\* dash0_logs_query and dash0_spans_query registered: one tool is listed.
C29_Witness ==
    /\ ~enabled.nil
    /\ DOMAIN enabled.m = {"dash0_other", "dash0_spans_query"}
    /\ DOMAIN tools = {"dash0_logs_query", "dash0_spans_query"}
    /\ listed.op = "GetEnabledTools"
    /\ listed.tools = <<[Name |-> "dash0_spans_query", def |-> "h2"]>>
    /\ EnabledCount(tools, enabled) = 1

\* C30: a min_severity that is none of the six upper-case level names
\* stands for rank 0 in the log query: the query does not fail because of
\* it, and the severity filter removes no record whose severityNumber is
\* zero or more (it keeps exactly those records).
C30_UnknownLevelIsRankZero ==
    (/\ handler = "logs"
     /\ pc = "done"
     /\ Flattened
     /\ args.min_severity.t = "str"
     /\ args.min_severity.s # ""
     /\ args.min_severity.s \notin LevelNames)
    => /\ result.Success
       /\ \A i \in 1..Len(flat) :
             (/\ flat[i].SeverityNumber >= 0
              /\ BodyFilterOff \/ ContainsIgnoringCase(flat[i].Body, args.body_contains.s))
             => \E j \in 1..Len(filtered) : filtered[j] = flat[i]
       /\ BodyFilterOff => filtered = SelectSeq(flat, LAMBDA r : r.SeverityNumber >= 0)

\* min_severity = "CRITICAL" over records of severity -1, 0 and 17: the
\* query succeeds and keeps the last two.
C30_Witness ==
    /\ QuerySucceeded("logs")
    /\ args.min_severity = StrArg("CRITICAL")
    /\ BodyFilterOff
    /\ Len(flat) = 3
    /\ flat[1].SeverityNumber = -1
    /\ flat[2].SeverityNumber = 0
    /\ flat[3].SeverityNumber = 17
    /\ filtered = <<flat[2], flat[3]>>

====
